---------------------------- MODULE Spec2Model ----------------------------
(***************************************************************************)
(* A model of the CEO Dashboard coordinator (src/main.py): the agent       *)
(* registry, the pending-approval table, the auto-approve pattern table,   *)
(* the list of connected WebSocket clients, and the coroutines that        *)
(* mutate them.  The coordinator runs on one asyncio event loop: a step of *)
(* the model is the code a coroutine runs between two awaits.              *)
(*                                                                         *)
(* Strings that the code inspects character by character (commands,       *)
(* tool names, patterns) are sequences of one-character strings.           *)
(***************************************************************************)
EXTENDS Integers, Sequences, FiniteSets, TLC

(***************************************************************************)
(* Bounds of the model.                                                    *)
(***************************************************************************)
MaxCmdLen == 4
NumObservers == 2
MaxAgents == 2
MaxRequests == 2
MaxLines == 1
MaxSessions == 1
MaxSubscribers == 1
MaxInputs == 2
MaxRuns == 3
MaxTextLen == 5
MaxBlocks == 3

(***************************************************************************)
(* Strings.                                                                *)
(***************************************************************************)
None == "None"
EmptyStr == <<>>
Whitespace == {" ", "\t"}
Alphabet == {" ", "\t", "/", ".", "a", "b"}
BashStr == <<"B", "a", "s", "h">>
EditStr == <<"E", "d", "i", "t">>
LowerBashStr == <<"b", "a", "s", "h">>
BashColon == BashStr \o <<":">>
ToolNames == {BashStr, EditStr, LowerBashStr}

RECURSIVE StringsUpTo(_)
StringsUpTo(n) ==
    IF n = 0 THEN {EmptyStr}
    ELSE LET shorter == StringsUpTo(n - 1)
         IN shorter \cup {Append(s, c) : s \in {t \in shorter : Len(t) = n - 1}, c \in Alphabet}

Commands == StringsUpTo(MaxCmdLen)

StartsWith(s, p) == Len(s) >= Len(p) /\ SubSeq(s, 1, Len(p)) = p

\* str.split(): the maximal runs of non-whitespace characters, in order.
RECURSIVE SplitWhitespace(_, _, _)
SplitWhitespace(s, cur, acc) ==
    IF s = <<>> THEN (IF cur = <<>> THEN acc ELSE Append(acc, cur))
    ELSE IF Head(s) \in Whitespace
         THEN SplitWhitespace(Tail(s), <<>>, IF cur = <<>> THEN acc ELSE Append(acc, cur))
         ELSE SplitWhitespace(Tail(s), Append(cur, Head(s)), acc)

\* str.split(sep) for a one-character sep: every piece between separators, empty ones kept.
RECURSIVE SplitOn(_, _, _, _)
SplitOn(s, sep, cur, acc) ==
    IF s = <<>> THEN Append(acc, cur)
    ELSE IF Head(s) = sep
         THEN SplitOn(Tail(s), sep, <<>>, Append(acc, cur))
         ELSE SplitOn(Tail(s), sep, Append(cur, Head(s)), acc)

\* tool_input.get("command", "")
GetCommand(tool_input) == IF tool_input.has_command THEN tool_input.command ELSE EmptyStr

\* A mutant of extract_command_prefix: the first path segment instead of the last.
extract_command_prefix_first_segment(tool_name, tool_input) ==
    IF tool_name = BashStr
    THEN LET command == GetCommand(tool_input)
             words == SplitWhitespace(command, <<>>, <<>>)
             first_word == IF words # <<>> THEN words[1] ELSE EmptyStr
         IN IF StartsWith(first_word, <<".", "/">>) THEN BashColon \o <<".", "/">>
            ELSE IF StartsWith(first_word, <<"/">>)
                 THEN LET parts == SplitOn(first_word, "/", <<>>, <<>>)
                          cmd_name == parts[2]
                      IN IF cmd_name # EmptyStr THEN BashColon \o cmd_name ELSE BashColon \o <<"/">>
                 ELSE BashColon \o first_word
    ELSE tool_name

extract_command_prefix(tool_name, tool_input) ==
    IF tool_name = BashStr
    THEN LET command == GetCommand(tool_input)
             words == SplitWhitespace(command, <<>>, <<>>)
             first_word == IF words # <<>> THEN words[1] ELSE EmptyStr
         IN IF StartsWith(first_word, <<".", "/">>) THEN BashColon \o <<".", "/">>
            ELSE IF StartsWith(first_word, <<"/">>)
                 THEN LET parts == SplitOn(first_word, "/", <<>>, <<>>)
                          cmd_name == parts[Len(parts)]
                      IN IF cmd_name # EmptyStr THEN BashColon \o cmd_name ELSE BashColon \o <<"/">>
                 ELSE BashColon \o first_word
    ELSE tool_name

(***************************************************************************)
(* State.                                                                  *)
(***************************************************************************)
VARIABLES
    pfxPc, pfxTool, pfxInput, pfxOut,   \* one call of extract_command_prefix
    registry,       \* the keys of the agents dict
    nextAgent,      \* the next fresh agent id (uuid4 prefixes are taken as unique)
    rec,            \* the agent dict objects, by id (they outlive their registry entry)
    patterns,       \* auto_approve_patterns: per agent id, absent or a set of patterns
    clients,        \* the clients list
    conn,           \* per observer: the state of its connection
    ws,             \* per observer: its websocket_endpoint coroutine
    received,       \* per observer: the messages delivered to it, in order
    pending,        \* the keys of pending_approvals
    future,         \* per request id: the result of its Future
    req,            \* per request id: its handle_approve_request coroutine
    nextReq,        \* the next fresh request id (uuid4)
    creates,        \* per agent id: the create_agent coroutine that made it
    deletes,        \* per agent id: the delete_agent coroutine that removed it
    runs,           \* the run_claude tasks, in creation order
    procs,          \* the session processes, in creation order
    termSignals,    \* per process: the number of terminate() signals sent to it
    mcpFiles,       \* the runs whose temporary MCP config file exists
    lastBcast,      \* what the broadcast completed by the last step did
    subAgents,      \* per observer: the agents registered when it subscribed
    announced,      \* per request id: the broadcasts of its approval_request
    responded,      \* the request ids named by processed approval_responses
    consented,      \* the pending request ids named by responses whose decision is "allow"
    addedFor,       \* per agent id: the patterns that responses have added for it
    adPc, adLine, adReply, adOut,   \* the permission server: one line of its stdin
    http,           \* the last reply to a control request: (operation, agent id, status)
    execs,          \* per agent id: the execute_plan coroutine that waits for its process
    clsPc, clsUnit, clsOut  \* one pass of the block loop of run_claude over one unit

pfxVars == <<pfxPc, pfxTool, pfxInput, pfxOut>>
adapterVars == <<adPc, adLine, adReply, adOut>>
clsVars == <<clsPc, clsUnit, clsOut>>
ctlVars == <<http, execs>>
agentVars == <<registry, nextAgent, rec, creates, deletes, runs, procs, termSignals, mcpFiles>>
brokerVars == <<pending, future, req, nextReq, announced, responded, consented>>
patternVars == <<patterns, addedFor>>
obsVars == <<clients, conn, ws, received, subAgents>>

vars == <<pfxVars, clsVars, adapterVars, ctlVars, agentVars, brokerVars, patternVars, obsVars, lastBcast>>

Observers == 1..NumObservers
AgentIds == 1..MaxAgents
ReqIds == 1..MaxRequests

Range(f) == {f[i] : i \in DOMAIN f}

RECURSIVE Remove(_, _)
\* list.remove(x) for an x that is in the list: the first occurrence goes.
Remove(seq, x) ==
    IF seq = <<>> THEN <<>>
    ELSE IF Head(seq) = x THEN Tail(seq)
         ELSE <<Head(seq)>> \o Remove(Tail(seq), x)

NoInput == [has_command |-> FALSE, command |-> EmptyStr]

(***************************************************************************)
(* One call of extract_command_prefix on its own.                          *)
(***************************************************************************)
\* No control request has been answered.
NoReply == <<"none", 0, 0>>

\* No execute_plan call is suspended.
NoExec == [pc |-> "none", proc |-> 0]

\* No line is before the permission server.
NoLine == [kind |-> "none", has_id |-> FALSE, id |-> 0, method |-> "none", params |-> "none"]

\* No pass of the block loop is being followed.
ClassifyIdle ==
    /\ clsPc = "idle"
    /\ clsUnit = <<>>
    /\ clsOut = [is_interrupt |-> FALSE, interrupt_type |-> None, ops |-> <<>>]

AdapterIdle == adPc = "idle" /\ adLine = NoLine /\ adReply = "none" /\ adOut = <<>>

PrefixIdle == pfxPc = "idle" /\ pfxTool = EmptyStr /\ pfxInput = NoInput /\ pfxOut = EmptyStr

(***************************************************************************)
(* broadcast (src/main.py 93-102).  The for loop over the clients list     *)
(* keeps an index into the list; each send_json is an await, so the list   *)
(* may change between two iterations.  A broadcast in progress is a record *)
(* b: the message, the client being sent to, the iterator's index, the     *)
(* dead list, and (for the record of what it did) the members at its start *)
(* and the observers it has delivered to.                                  *)
(***************************************************************************)
NoMsg == [type |-> "none"]
NoB == [msg |-> NoMsg, cur |-> 0, idx |-> 0, dead |-> <<>>, start |-> {}, delivered |-> {}]
NoOutcome == [completed |-> FALSE, missed |-> {}, unpruned |-> {}, raised |-> FALSE]

RECURSIVE PruneDead(_, _)
\* for client in dead: clients.remove(client) -- ValueError if it is not there.
PruneDead(dead, cl) ==
    IF dead = <<>> THEN [clients |-> cl, raised |-> FALSE]
    ELSE IF Head(dead) \in Range(cl)
         THEN PruneDead(Tail(dead), Remove(cl, Head(dead)))
         ELSE [clients |-> cl, raised |-> TRUE]

\* The end of broadcast: the dead are pruned and the call returns or raises.
BcastFinish(b, cl, cn, rcv) ==
    LET p == PruneDead(b.dead, cl)
    IN [done |-> TRUE, raised |-> p.raised, b |-> NoB, clients |-> p.clients, received |-> rcv,
        outcome |-> [completed |-> TRUE,
                     missed |-> {o \in b.start \cap Range(cl) : cn[o] = "open"} \ b.delivered,
                     unpruned |-> Range(b.dead) \cap Range(p.clients),
                     raised |-> p.raised]]

\* The head of the for loop: the next client, or the end of the loop.
BcastLoop(b, cl, cn, rcv) ==
    IF b.idx < Len(cl)
    THEN [done |-> FALSE, raised |-> FALSE,
          b |-> [b EXCEPT !.cur = cl[b.idx + 1], !.idx = b.idx + 1],
          clients |-> cl, received |-> rcv, outcome |-> NoOutcome]
    ELSE BcastFinish(b, cl, cn, rcv)

\* broadcast(msg) is called: runs up to the first await, or to the end.
BcastBegin(msg, cl, cn, rcv) ==
    BcastLoop([NoB EXCEPT !.msg = msg, !.start = Range(cl)], cl, cn, rcv)

\* await client.send_json(message) returns or raises, and the loop goes on.
BcastResume(b, cl, cn, rcv) ==
    IF cn[b.cur] = "open"
    THEN BcastLoop([b EXCEPT !.delivered = @ \cup {b.cur}], cl, cn,
                   [rcv EXCEPT ![b.cur] = Append(@, b.msg)])
    ELSE BcastLoop([b EXCEPT !.dead = Append(@, b.cur)], cl, cn, rcv)

(***************************************************************************)
(* Values.                                                                 *)
(***************************************************************************)
Min(S) == CHOOSE x \in S : \A y \in S : x <= y

\* The prompts are strings, that is sequences of characters.
InitialPrompt == <<"g", "o">>
Project == "project"
Modes == {"plan", "normal"}

NoRec == [project |-> Project, status |-> "none", mode |-> "none", process |-> 0,
          session_id |-> 0, messages |-> <<>>, waiting_on_user |-> FALSE]

\* The tool invocations that approval requests carry: a Bash command and an Edit.
CallPath == [tool_name |-> BashStr, input |-> [has_command |-> TRUE, command |-> <<"/", "b", "/", "a">>]]
CallEdit == [tool_name |-> EditStr, input |-> NoInput]
ToolCalls == {CallPath, CallEdit}

\* The patterns an observer may ask to remember ("" stands for no pattern).
ResponsePatterns == {BashColon \o <<"a">>, EditStr}

\* data.get("tool_input") of an approval_response: null when the key is absent.
JsonNull == [is_null |-> TRUE, value |-> NoInput]
Json(input) == [is_null |-> FALSE, value |-> input]
ResponseInputs == {JsonNull, Json(CallPath.input)}

NoDecision == [behavior |-> "none", updatedInput |-> JsonNull, message |-> ""]
Allow(updated) == [behavior |-> "allow", updatedInput |-> updated, message |-> ""]
Deny(message) == [behavior |-> "deny", updatedInput |-> JsonNull, message |-> message]

\* The approval_response messages an observer may send.  request_id 0 is an id
\* that was never issued, agent_id 0 a missing agent_id.  Those without a
\* pattern, as the Yes and No buttons send them:
PlainResponses ==
    [request_id : 0..MaxRequests, decision : {"allow", "deny"}, pattern : {EmptyStr},
     agent_id : {0}, tool_input : ResponseInputs]

\* and those of "Yes to all", which allow and name a pattern and an agent; a
\* denial that carries a pattern and an agent as well stands for every other
\* decision.
PatternResponses ==
    [request_id : 0..MaxRequests, decision : {"allow"},
     pattern : ResponsePatterns, agent_id : AgentIds, tool_input : {JsonNull}]
    \cup [request_id : {0}, decision : {"deny"},
          pattern : ResponsePatterns, agent_id : {1}, tool_input : {JsonNull}]

\* sent and gone record the agents whose init the snapshot has sent and the
\* agents that had been deleted when the observer subscribed.
NoWs == [pc |-> "none", pos |-> 0, used |-> 0, len |-> 0, msg |-> NoMsg, err |-> "none",
         sent |-> <<>>, gone |-> {}, b |-> NoB, inputs |-> 0]
NoReq == [pc |-> "none", agent_id |-> 0, call |-> CallEdit, hit |-> FALSE, b |-> NoB,
          result |-> NoDecision]
\* No line has been read.
NoData == [json |-> FALSE, type |-> "unread", blocks |-> <<>>, usage |-> FALSE, session_id |-> 0]

NoRun == [pc |-> "none", agent_id |-> 0, mode |-> "none", proc |-> 0, exc |-> FALSE,
          b |-> NoB, todo |-> <<>>, lines |-> 0, cmd |-> {}, data |-> NoData]
NoCtl == [pc |-> "none", mode |-> "none", b |-> NoB]

(***************************************************************************)
(* The pattern cache (src/main.py 142-162).                                *)
(***************************************************************************)
\* auto_approve_patterns.get(agent_id, set())
PatternsOf(pt, agent_id) == IF agent_id \in DOMAIN pt THEN pt[agent_id] ELSE {}

\* A mutant of should_auto_approve: the patterns of every agent are consulted.
should_auto_approve_any_agent(pt, agent_id, tool_name, tool_input) ==
    LET all == UNION {pt[x] : x \in DOMAIN pt}
    IN \/ tool_name \in all
       \/ extract_command_prefix(tool_name, tool_input) \in all

\* A mutant of should_auto_approve: only the tool name is looked up.
should_auto_approve_name_only(pt, agent_id, tool_name, tool_input) ==
    tool_name \in PatternsOf(pt, agent_id)

should_auto_approve(pt, agent_id, tool_name, tool_input) ==
    LET pats == PatternsOf(pt, agent_id)
    IN IF pats = {} THEN FALSE
       ELSE IF tool_name \in pats THEN TRUE
       ELSE IF extract_command_prefix(tool_name, tool_input) \in pats THEN TRUE
       ELSE FALSE

(***************************************************************************)
(* websocket_endpoint: connecting and the snapshot (src/main.py 731-746).  *)
(* agents.items() is iterated with an await inside the loop.  The dict's   *)
(* entries are in insertion order, which is the order of agent ids; a      *)
(* deleted entry leaves a hole; the iterator remembers the dict's size     *)
(* when it was made and how many entries it still expects.                 *)
(***************************************************************************)
SnapshotInit(a, r) ==
    [type |-> "init", agent_id |-> a, project |-> r.project, status |-> r.status,
     mode |-> r.mode, messages |-> r.messages, waiting_on_user |-> r.waiting_on_user]

\* next() on the dict iterator, and the send it leads to.
SnapshotNext(w, reg, recs) ==
    LET cand == {a \in reg : a >= w.pos}
    IN IF Cardinality(reg) # w.used
       THEN [w EXCEPT !.pc = "crashed", !.err = "RuntimeError", !.msg = NoMsg]
       ELSE IF cand = {}
            THEN [w EXCEPT !.pc = "recv", !.msg = NoMsg]
            ELSE IF w.len = 0
                 THEN [w EXCEPT !.pc = "crashed", !.err = "RuntimeError", !.msg = NoMsg]
                 ELSE [w EXCEPT !.pc = "snapshot", !.pos = Min(cand) + 1, !.len = w.len - 1,
                                !.msg = SnapshotInit(Min(cand), recs[Min(cand)])]

\* A handler that ends with an exception has its connection closed by the server.
ConnAfter(o, w) == IF w.pc = "crashed" THEN [conn EXCEPT ![o] = "closed"] ELSE conn

\* A new observer connects: accept, clients.append, the first snapshot send.
Connect(o) ==
    /\ conn[o] = "none"
    /\ conn' = [conn EXCEPT ![o] = "open"]
    /\ clients' = Append(clients, o)
    /\ subAgents' = [subAgents EXCEPT ![o] = registry]
    /\ ws' = [ws EXCEPT ![o] = SnapshotNext([NoWs EXCEPT !.pos = 1, !.used = Cardinality(registry),
                                                        !.len = Cardinality(registry),
                                                        !.gone = {a \in AgentIds : deletes[a].pc # "none"}],
                                            registry, rec)]
    /\ lastBcast' = NoOutcome
    /\ UNCHANGED <<pfxVars, clsVars, adapterVars, ctlVars, agentVars, brokerVars, patternVars, received>>

\* await websocket.send_json(init) of the snapshot returns or raises.
SnapshotSend(o) ==
    /\ ws[o].pc = "snapshot"
    /\ IF conn[o] = "open"
       THEN LET w == SnapshotNext([ws[o] EXCEPT !.sent = Append(@, ws[o].msg.agent_id)], registry, rec)
            IN /\ received' = [received EXCEPT ![o] = Append(@, ws[o].msg)]
               /\ ws' = [ws EXCEPT ![o] = w]
               /\ conn' = ConnAfter(o, w)
       ELSE /\ ws' = [ws EXCEPT ![o] = [@ EXCEPT !.pc = "crashed", !.err = "SendError", !.msg = NoMsg]]
            /\ UNCHANGED <<received, conn>>
    /\ lastBcast' = NoOutcome
    /\ UNCHANGED <<pfxVars, clsVars, adapterVars, ctlVars, agentVars, brokerVars, patternVars, clients, subAgents>>

\* The observer's side of the connection goes away.
PeerClose(o) ==
    /\ conn[o] = "open"
    /\ conn' = [conn EXCEPT ![o] = "closed"]
    /\ lastBcast' = NoOutcome
    /\ UNCHANGED <<pfxVars, clsVars, adapterVars, ctlVars, agentVars, brokerVars, patternVars, clients, ws, received, subAgents>>

\* receive_json raises WebSocketDisconnect: clients.remove(websocket) (858-859).
WsDisconnect(o) ==
    /\ ws[o].pc = "recv"
    /\ conn[o] = "closed"
    /\ IF o \in Range(clients)
       THEN /\ clients' = Remove(clients, o)
            /\ ws' = [ws EXCEPT ![o] = [@ EXCEPT !.pc = "ended"]]
       ELSE /\ ws' = [ws EXCEPT ![o] = [@ EXCEPT !.pc = "crashed", !.err = "ValueError"]]
            /\ UNCHANGED clients
    /\ lastBcast' = NoOutcome
    /\ UNCHANGED <<pfxVars, clsVars, adapterVars, ctlVars, agentVars, brokerVars, patternVars, conn, received, subAgents>>

(***************************************************************************)
(* websocket_endpoint: an approval_response (src/main.py 753-791).         *)
(***************************************************************************)
\* A mutant of AddPattern: the agent's set is replaced, not extended.
AddPatternOverwrite(pt, agent_id, pattern) ==
    [x \in DOMAIN pt \cup {agent_id} |-> IF x = agent_id THEN {pattern} ELSE pt[x]]

\* A mutant of AddPattern: the pattern is stored for every agent.
AddPatternEveryAgent(pt, agent_id, pattern) ==
    [x \in DOMAIN pt \cup {agent_id} |-> PatternsOf(pt, x) \cup {pattern}]

\* auto_approve_patterns.setdefault(agent_id, set()).add(pattern)
AddPattern(pt, agent_id, pattern) ==
    [x \in DOMAIN pt \cup {agent_id} |->
        IF x = agent_id THEN PatternsOf(pt, x) \cup {pattern} ELSE pt[x]]

\* A mutant of ResponseDecision: every response allows.
ResponseDecisionAlwaysAllows(m) == Allow(m.tool_input)

\* The decision the handler puts in the Future.
ResponseDecision(m) ==
    IF m.decision = "allow" THEN Allow(m.tool_input) ELSE Deny("Denied by user")

\* A mutant of WsApprovalResponse: a pattern is stored whatever the decision.
WsApprovalResponseStoresOnDeny(o, m) ==
    /\ ws[o].pc = "recv"
    /\ conn[o] = "open"
    /\ m.request_id < nextReq
    /\ m.agent_id < nextAgent
    /\ LET stores == m.pattern # EmptyStr /\ m.agent_id # 0
       IN /\ patterns' = IF stores THEN AddPattern(patterns, m.agent_id, m.pattern) ELSE patterns
          /\ addedFor' = IF stores THEN [addedFor EXCEPT ![m.agent_id] = @ \cup {m.pattern}]
                         ELSE addedFor
    /\ responded' = responded \cup ({m.request_id} \cap pending)
    /\ consented' = IF m.decision = "allow" THEN consented \cup ({m.request_id} \cap pending)
                    ELSE consented
    /\ IF m.request_id \in pending
       THEN IF future[m.request_id] = NoDecision
            THEN /\ future' = [future EXCEPT ![m.request_id] = ResponseDecision(m)]
                 /\ UNCHANGED <<ws, conn>>
            ELSE /\ ws' = [ws EXCEPT ![o] = [@ EXCEPT !.pc = "crashed", !.err = "InvalidStateError"]]
                 /\ conn' = [conn EXCEPT ![o] = "closed"]
                 /\ UNCHANGED future
       ELSE UNCHANGED <<future, ws, conn>>
    /\ lastBcast' = NoOutcome
    /\ UNCHANGED <<pfxVars, clsVars, adapterVars, ctlVars, agentVars, pending, req, nextReq, announced, clients, received, subAgents>>

WsApprovalResponse(o, m) ==
    /\ ws[o].pc = "recv"
    /\ conn[o] = "open"
    /\ m.request_id < nextReq
    /\ m.agent_id < nextAgent
    /\ LET stores == m.pattern # EmptyStr /\ m.agent_id # 0 /\ m.decision = "allow"
       IN /\ patterns' = IF stores THEN AddPattern(patterns, m.agent_id, m.pattern) ELSE patterns
          /\ addedFor' = IF stores THEN [addedFor EXCEPT ![m.agent_id] = @ \cup {m.pattern}]
                         ELSE addedFor
    /\ responded' = responded \cup ({m.request_id} \cap pending)
    /\ consented' = IF m.decision = "allow" THEN consented \cup ({m.request_id} \cap pending)
                    ELSE consented
    /\ IF m.request_id \in pending
       THEN IF future[m.request_id] = NoDecision
            THEN /\ future' = [future EXCEPT ![m.request_id] = ResponseDecision(m)]
                 /\ UNCHANGED <<ws, conn>>
            ELSE \* Future.set_result on a Future that is done: InvalidStateError
                 /\ ws' = [ws EXCEPT ![o] = [@ EXCEPT !.pc = "crashed", !.err = "InvalidStateError"]]
                 /\ conn' = [conn EXCEPT ![o] = "closed"]
                 /\ UNCHANGED future
       ELSE UNCHANGED <<future, ws, conn>>
    /\ lastBcast' = NoOutcome
    /\ UNCHANGED <<pfxVars, clsVars, adapterVars, ctlVars, agentVars, pending, req, nextReq, announced, clients, received, subAgents>>

(***************************************************************************)
(* handle_approve_request (src/main.py 637-714).                           *)
(***************************************************************************)
\* command_display of the approval_request: only Bash carries one here, the
\* tool inputs of the model having no file_path.
CommandDisplay(call) == IF call.tool_name = BashStr THEN GetCommand(call.input) ELSE EmptyStr

ApprovalRequestMsg(r, agent_id, call) ==
    [type |-> "approval_request", request_id |-> r, agent_id |-> agent_id,
     tool_name |-> call.tool_name, tool_input |-> call.input,
     command_display |-> CommandDisplay(call),
     pattern |-> extract_command_prefix(call.tool_name, call.input)]

\* A mutant of AwaitFuture: the wait is given up with a denial.
AwaitFutureGivesUp(q, r, fut) ==
    [q EXCEPT !.pc = "returned", !.b = NoB,
              !.result = IF fut[r] = NoDecision THEN Deny("timeout") ELSE fut[r]]

\* decision = await future, then the finally clause and the return.
AwaitFuture(q, r, fut) ==
    IF fut[r] = NoDecision THEN [q EXCEPT !.pc = "waiting", !.b = NoB]
    ELSE [q EXCEPT !.pc = "returned", !.b = NoB, !.result = fut[r]]

\* The handler once its broadcast has begun or gone on: still sending, raised, or past it.
AfterApprovalBroadcast(q, r, res, fut) ==
    IF res.raised THEN [q EXCEPT !.pc = "error", !.b = NoB]
    ELSE IF res.done THEN AwaitFuture(q, r, fut)
    ELSE [q EXCEPT !.pc = "bcast", !.b = res.b]

\* The request arrives: the cache check, and on a miss the pending entry and
\* the broadcast up to its first await.
ApproveRequest(agent_id, call) ==
    /\ nextReq <= MaxRequests
    /\ agent_id < nextAgent
    /\ nextReq' = nextReq + 1
    /\ IF should_auto_approve(patterns, agent_id, call.tool_name, call.input)
       THEN /\ req' = [req EXCEPT ![nextReq] =
                          [NoReq EXCEPT !.pc = "returned", !.agent_id = agent_id, !.call = call,
                                        !.hit = TRUE, !.result = Allow(Json(call.input))]]
            /\ lastBcast' = NoOutcome
            /\ UNCHANGED <<pending, announced, clients, received>>
       ELSE LET res == BcastBegin(ApprovalRequestMsg(nextReq, agent_id, call),
                                  clients, conn, received)
                q == [NoReq EXCEPT !.agent_id = agent_id, !.call = call]
            IN /\ pending' = pending \cup {nextReq}
               /\ announced' = [announced EXCEPT ![nextReq] = @ + 1]
               /\ req' = [req EXCEPT ![nextReq] = AfterApprovalBroadcast(q, nextReq, res, future)]
               /\ clients' = res.clients
               /\ received' = res.received
               /\ lastBcast' = res.outcome
    /\ UNCHANGED <<pfxVars, clsVars, adapterVars, ctlVars, agentVars, patternVars, future, responded, consented, conn, ws, subAgents>>

\* A send_json of the approval_request broadcast returns or raises.
ApproveSend(r) ==
    /\ req[r].pc = "bcast"
    /\ LET res == BcastResume(req[r].b, clients, conn, received)
           q == AfterApprovalBroadcast(req[r], r, res, future)
       IN /\ req' = [req EXCEPT ![r] = q]
          /\ pending' = IF q.pc = "returned" THEN pending \ {r} ELSE pending
          /\ clients' = res.clients
          /\ received' = res.received
          /\ lastBcast' = res.outcome
    /\ UNCHANGED <<pfxVars, clsVars, adapterVars, ctlVars, agentVars, patternVars, future, nextReq, announced, responded, consented,
                   conn, ws, subAgents>>

\* A mutant of ApproveReturn: the entry is left in the table.
ApproveReturnKeepsEntry(r) ==
    /\ req[r].pc = "waiting"
    /\ future[r] # NoDecision
    /\ req' = [req EXCEPT ![r] = AwaitFuture(@, r, future)]
    /\ lastBcast' = NoOutcome
    /\ UNCHANGED <<pfxVars, clsVars, adapterVars, ctlVars, agentVars, patternVars, pending, future, nextReq, announced,
                   responded, consented, obsVars>>

\* The Future is done: the suspended handler resumes, pops its entry and returns.
ApproveReturn(r) ==
    /\ req[r].pc = "waiting"
    /\ future[r] # NoDecision
    /\ req' = [req EXCEPT ![r] = AwaitFuture(@, r, future)]
    /\ pending' = pending \ {r}
    /\ lastBcast' = NoOutcome
    /\ UNCHANGED <<pfxVars, clsVars, adapterVars, ctlVars, agentVars, patternVars, future, nextReq, announced, responded, consented,
                   obsVars>>

\* The inputs of extract_command_prefix: a tool name and a tool_input dict
\* with or without a "command" key; the coordinator itself is idle.
InitPrefix ==
    /\ pfxPc = "call"
    /\ pfxTool \in ToolNames
    /\ pfxInput \in [has_command : {TRUE}, command : Commands] \cup {NoInput}
    /\ pfxOut = EmptyStr
    /\ AdapterIdle
    /\ ClassifyIdle
    /\ http = NoReply
    /\ execs = [a \in AgentIds |-> NoExec]
    /\ registry = {}
    /\ nextAgent = 1
    /\ rec = [a \in AgentIds |-> NoRec]
    /\ patterns = <<>>
    /\ clients = <<>>
    /\ conn = [o \in Observers |-> "none"]
    /\ ws = [o \in Observers |-> NoWs]
    /\ received = [o \in Observers |-> <<>>]
    /\ pending = {}
    /\ future = [r \in ReqIds |-> NoDecision]
    /\ req = [r \in ReqIds |-> NoReq]
    /\ nextReq = 1
    /\ creates = [a \in AgentIds |-> NoCtl]
    /\ deletes = [a \in AgentIds |-> NoCtl]
    /\ runs = <<>>
    /\ procs = <<>>
    /\ termSignals = <<>>
    /\ mcpFiles = {}
    /\ lastBcast = NoOutcome
    /\ subAgents = [o \in Observers |-> {}]
    /\ announced = [r \in ReqIds |-> 0]
    /\ responded = {}
    /\ consented = {}
    /\ addedFor = [a \in AgentIds |-> {}]

ApplyPrefix ==
    /\ pfxPc = "call"
    /\ pfxPc' = "returned"
    /\ pfxOut' = extract_command_prefix(pfxTool, pfxInput)
    /\ UNCHANGED <<pfxTool, pfxInput, clsVars, adapterVars, ctlVars, agentVars, brokerVars, patternVars, obsVars,
                   lastBcast>>

(***************************************************************************)
(* create_agent (src/main.py 486-537).                                     *)
(***************************************************************************)
CreatedInit(a, mode) ==
    [type |-> "init", agent_id |-> a, project |-> Project, status |-> "idle", mode |-> mode]

\* asyncio.create_task(run_claude(agent_id, prompt, project_path, mode=mode))
CreateTask(rs, a, mode) == Append(rs, [NoRun EXCEPT !.pc = "start", !.agent_id = a, !.mode = mode])

\* The handler once its broadcast has begun or gone on.
AfterCreateBroadcast(c, res) ==
    IF res.raised THEN [c EXCEPT !.pc = "error", !.b = NoB]
    ELSE IF res.done THEN [c EXCEPT !.pc = "done", !.b = NoB]
    ELSE [c EXCEPT !.pc = "bcast", !.b = res.b]

\* POST /agents for an existing project: the registry entry, the empty
\* pattern set, and the init broadcast up to its first await.
CreateAgent(mode) ==
    /\ nextAgent <= MaxAgents
    /\ LET a == nextAgent
           res == BcastBegin(CreatedInit(a, mode), clients, conn, received)
           c == AfterCreateBroadcast([NoCtl EXCEPT !.mode = mode], res)
       IN /\ nextAgent' = a + 1
          /\ registry' = registry \cup {a}
          /\ rec' = [rec EXCEPT ![a] = [NoRec EXCEPT !.status = "idle", !.mode = mode]]
          /\ patterns' = [x \in DOMAIN patterns \cup {a} |-> IF x = a THEN {} ELSE patterns[x]]
          /\ creates' = [creates EXCEPT ![a] = c]
          /\ runs' = IF c.pc = "done" THEN CreateTask(runs, a, mode) ELSE runs
          /\ clients' = res.clients
          /\ received' = res.received
          /\ lastBcast' = res.outcome
    /\ UNCHANGED <<pfxVars, clsVars, adapterVars, ctlVars, deletes, procs, termSignals, mcpFiles, brokerVars, addedFor,
                   conn, ws, subAgents>>

\* A send_json of the init broadcast returns or raises.
CreateSend(a) ==
    /\ creates[a].pc = "bcast"
    /\ LET res == BcastResume(creates[a].b, clients, conn, received)
           c == AfterCreateBroadcast(creates[a], res)
       IN /\ creates' = [creates EXCEPT ![a] = c]
          /\ runs' = IF c.pc = "done" THEN CreateTask(runs, a, c.mode) ELSE runs
          /\ clients' = res.clients
          /\ received' = res.received
          /\ lastBcast' = res.outcome
    /\ UNCHANGED <<pfxVars, clsVars, adapterVars, ctlVars, registry, nextAgent, rec, deletes, procs, termSignals, mcpFiles,
                   brokerVars, patternVars, conn, ws, subAgents>>

(***************************************************************************)
(* delete_agent (src/main.py 540-555).                                     *)
(***************************************************************************)
AfterDeleteBroadcast(d, res) ==
    IF res.raised THEN [d EXCEPT !.pc = "error", !.b = NoB]
    ELSE IF res.done THEN [d EXCEPT !.pc = "done", !.b = NoB]
    ELSE [d EXCEPT !.pc = "bcast", !.b = res.b]

\* A mutant of Terminate: no signal is sent.
TerminateSkipped(ts, p) == ts

\* process.terminate(): a signal to a running process.
Terminate(ts, p) == [ts EXCEPT ![p] = @ + 1]

\* dict.pop(key, None) on the pattern table.
PopPatterns(pt, a) == [x \in DOMAIN pt \ {a} |-> pt[x]]

\* DELETE /agents/{id} for a registered agent.  terminate() on a process that
\* has already exited either does nothing or, once asyncio has closed the
\* process transport, raises ProcessLookupError (lookup): the handler then
\* ends after the pop, before the pattern cleanup and the broadcast.
DeleteAgent(a, lookup) ==
    /\ a \in registry
    /\ registry' = registry \ {a}
    /\ LET p == rec[a].process
           running == p # 0 /\ procs[p] = "running"
           fails == p # 0 /\ procs[p] = "exited" /\ lookup
           res == BcastBegin([type |-> "deleted", agent_id |-> a], clients, conn, received)
       IN /\ lookup => fails
          /\ termSignals' = IF running THEN Terminate(termSignals, p) ELSE termSignals
          /\ IF fails
             THEN /\ deletes' = [deletes EXCEPT ![a] = [NoCtl EXCEPT !.pc = "lookup_error"]]
                  /\ lastBcast' = NoOutcome
                  /\ UNCHANGED <<patterns, clients, received>>
             ELSE /\ patterns' = PopPatterns(patterns, a)
                  /\ deletes' = [deletes EXCEPT ![a] = AfterDeleteBroadcast(NoCtl, res)]
                  /\ clients' = res.clients
                  /\ received' = res.received
                  /\ lastBcast' = res.outcome
    /\ UNCHANGED <<pfxVars, clsVars, adapterVars, ctlVars, nextAgent, rec, creates, runs, procs, mcpFiles, brokerVars, addedFor,
                   conn, ws, subAgents>>

\* A send_json of the deleted broadcast returns or raises.
DeleteSend(a) ==
    /\ deletes[a].pc = "bcast"
    /\ LET res == BcastResume(deletes[a].b, clients, conn, received)
       IN /\ deletes' = [deletes EXCEPT ![a] = AfterDeleteBroadcast(deletes[a], res)]
          /\ clients' = res.clients
          /\ received' = res.received
          /\ lastBcast' = res.outcome
    /\ UNCHANGED <<pfxVars, clsVars, adapterVars, ctlVars, registry, nextAgent, rec, creates, runs, procs, termSignals, mcpFiles,
                   brokerVars, patternVars, conn, ws, subAgents>>

(***************************************************************************)
(* run_claude (src/main.py 213-464).  A run is one task; its steps are the *)
(* stretches of code between two awaits.  The child process is an entry of *)
(* procs, "running" or "exited".                                           *)
(***************************************************************************)
StatusMsg(a, status) == [type |-> "status", agent_id |-> a, status |-> status]

\* The lines a child may print.  A line is JSON or not; a JSON line has a
\* type, and an assistant message has content blocks.  RawLine is not JSON;
\* SystemLine is a JSON object of a type the runner gives no special
\* treatment.
Line(json, type, blocks) ==
    [json |-> json, type |-> type, blocks |-> blocks, usage |-> FALSE, session_id |-> 0]
RawLine == Line(FALSE, "none", <<>>)
SystemLine == Line(TRUE, "system", <<>>)
Lines == {RawLine, SystemLine}

OutputMsg(a, line) ==
    [type |-> "output", agent_id |-> a, interrupt_type |-> None, content |-> line]

\* The content blocks of an assistant message: text, and tool_use with the
\* name of the tool.
TextBlock(text) == [type |-> "text", text |-> text, name |-> ""]
ToolUse(name) == [type |-> "tool_use", text |-> EmptyStr, name |-> name]
AssistantLine(blocks) == Line(TRUE, "assistant", blocks)

\* A text that is no question, and one that is.
PlainText == <<"o", "h">>
QuestionText == <<"h", "o", "w", "?">>

\* Further lines: a JSON value that is no object; an assistant message whose
\* one content block is a tool_use of ExitPlanMode.
ScalarLine == Line(TRUE, "not_object", <<>>)
PlanLine == AssistantLine(<<ToolUse("ExitPlanMode")>>)

\* The session id that a line carries.
SessionId == 1

\* A result with usage and a session id; a result without either; and the
\* system line that opens a session, which names the session id as well.
ResultLine == [Line(TRUE, "result", <<>>) EXCEPT !.usage = TRUE, !.session_id = SessionId]
BareResultLine == Line(TRUE, "result", <<>>)
SystemInitLine == [Line(TRUE, "system", <<>>) EXCEPT !.session_id = SessionId]
SessionLines == Lines \cup {ScalarLine, PlanLine, ResultLine}

UsageMsg(a) == [type |-> "usage", agent_id |-> a]
ToolMsg(a, name) == [type |-> "tool", agent_id |-> a, tool |-> name]
InterruptMsg(a, line, kind) ==
    [type |-> "interrupt", agent_id |-> a, interrupt_type |-> kind, content |-> line]

Bc(msg) == [op |-> "bc", msg |-> msg]
Op(name) == [op |-> name, msg |-> NoMsg]
\* agent["messages"].append({"role": "assistant", "content": text})
LogOp(text) == [op |-> "log", msg |-> [type |-> "log", text |-> text]]

\* The phrases of the question check, and the two characters that
\* str.lower() changes among those of the texts here.
QuestionPhrases ==
    {<<"w", "o", "u", "l", "d", " ", "y", "o", "u">>,
     <<"s", "h", "o", "u", "l", "d", " ", "i">>,
     <<"d", "o", " ", "y", "o", "u", " ", "w", "a", "n", "t">>,
     <<"w", "h", "i", "c", "h">>,
     <<"w", "h", "a", "t">>,
     <<"h", "o", "w">>,
     <<"p", "r", "e", "f", "e", "r">>,
     <<"l", "i", "k", "e", " ", "m", "e", " ", "t", "o">>}
LowerChar(c) == IF c = "H" THEN "h" ELSE IF c = "W" THEN "w" ELSE c
Lower(s) == [i \in DOMAIN s |-> LowerChar(s[i])]

\* p in s, for strings.
Contains(s, p) == \E i \in 0..(Len(s) - Len(p)) : SubSeq(s, i + 1, i + Len(p)) = p

\* A mutant of TextIsQuestion: the text is not lower-cased.
TextIsQuestionCaseSensitive(text) ==
    Contains(text, <<"?">>) /\ \E q \in QuestionPhrases : Contains(text, q)

\* "?" in text and any(q in text.lower() for q in [...])
TextIsQuestion(text) ==
    Contains(text, <<"?">>) /\ \E q \in QuestionPhrases : Contains(Lower(text), q)

\* The state of the block loop: the two flags, and the appends to the
\* message log and the tool broadcasts made so far, in order.
NoClass == [is_interrupt |-> FALSE, interrupt_type |-> None, ops |-> <<>>]

\* The body of the block loop for one block.
ClassifyBlock(a, st, block) ==
    IF block.type = "text"
    THEN LET ops == IF block.text # EmptyStr THEN Append(st.ops, LogOp(block.text)) ELSE st.ops
         IN IF TextIsQuestion(block.text)
            THEN [is_interrupt |-> TRUE, interrupt_type |-> "question", ops |-> ops]
            ELSE [st EXCEPT !.ops = ops]
    ELSE IF block.type = "tool_use"
    THEN LET ops == Append(st.ops, Bc(ToolMsg(a, block.name)))
         IN IF block.name \in {"AskUserQuestion", "AskHuman"}
            THEN [is_interrupt |-> TRUE, interrupt_type |-> "question", ops |-> ops]
            ELSE IF block.name = "ExitPlanMode"
            THEN [is_interrupt |-> TRUE, interrupt_type |-> "plan", ops |-> ops]
            ELSE [st EXCEPT !.ops = ops]
    ELSE st

RECURSIVE ClassifyBlocks(_, _, _)
\* for block in content_blocks
ClassifyBlocks(a, st, blocks) ==
    IF blocks = <<>> THEN st
    ELSE ClassifyBlocks(a, ClassifyBlock(a, st, Head(blocks)), Tail(blocks))

\* A mutant of CarriesSession: the type of the line is not looked at.
CarriesSessionAnyType(line) == line.session_id # 0

\* msg_type == "result" and "session_id" in data
CarriesSession(line) == line.type = "result" /\ line.session_id # 0

\* A mutant of NotifyOps: the content goes out before the status.
NotifyOpsContentFirst(a, line, c) ==
    IF c.is_interrupt
    THEN <<Op("attn"), Bc(InterruptMsg(a, line, c.interrupt_type)),
           Bc(StatusMsg(a, "needs_attention"))>>
    ELSE <<Bc(OutputMsg(a, line))>>

\* The end of the loop body: an interrupt sets the status and the waiting
\* flag and broadcasts the status; then the line is broadcast, as an
\* interrupt or as output.
NotifyOps(a, line, c) ==
    IF c.is_interrupt
    THEN <<Op("attn"), Bc(StatusMsg(a, "needs_attention")),
           Bc(InterruptMsg(a, line, c.interrupt_type))>>
    ELSE <<Bc(OutputMsg(a, line))>>

\* What the loop body does with one line, as the list of its broadcasts and
\* of its writes to the agent between them.  data.get on a JSON value that
\* is no object raises AttributeError, which the except clause (for
\* JSONDecodeError only) does not catch.
LineOps(a, line) ==
    IF line = ScalarLine THEN <<Op("raise")>>
    ELSE IF ~line.json THEN <<Bc(OutputMsg(a, line))>>
    ELSE LET c == ClassifyBlocks(a, NoClass, IF line.type = "assistant" THEN line.blocks ELSE <<>>)
             first == (IF line.usage THEN <<Bc(UsageMsg(a))>> ELSE <<>>)
                      \o (IF CarriesSession(line) THEN <<Op("session")>> ELSE <<>>)
         IN first \o c.ops \o NotifyOps(a, line, c)

\* A write of the loop body to the agent: the interrupt, the session id, or
\* an assistant text for the message log.
ApplyOp(r, op) ==
    IF op.op = "attn" THEN [r EXCEPT !.status = "needs_attention", !.waiting_on_user = TRUE]
    ELSE IF op.op = "session" THEN [r EXCEPT !.session_id = SessionId]
    ELSE IF op.op = "log"
    THEN [r EXCEPT !.messages = Append(@, [role |-> "assistant", content |-> op.msg.text])]
    ELSE r

\* Modes whose runs write a temporary MCP config file.
McpModes == {"normal", "auto-edit"}

\* The modes of the dashboard.
AllModes == {"plan", "normal", "auto-edit", "yolo"}

\* The flags of the command line that tell the child of its permissions.
PlanFlag == "--permission-mode plan"
McpConfigFlag == "--mcp-config"
PromptToolFlag == "--permission-prompt-tool mcp__ceo-perms__approve"
AcceptEditsFlag == "--permission-mode acceptEdits"
SkipFlag == "--dangerously-skip-permissions"

\* A mutant of ModeSetup: auto-edit is set up as normal is.
ModeSetupEditsAsNormal(mode) ==
    IF mode = "plan" THEN [config |-> FALSE, flags |-> {PlanFlag}]
    ELSE IF mode \in {"normal", "auto-edit"}
    THEN [config |-> TRUE, flags |-> {McpConfigFlag, PromptToolFlag}]
    ELSE IF mode = "yolo" THEN [config |-> FALSE, flags |-> {SkipFlag}]
    ELSE [config |-> FALSE, flags |-> {}]

\* The mode-specific part of run_claude: whether create_mcp_config is called,
\* and the flags that extend the command.  Any other mode adds nothing.
ModeSetup(mode) ==
    IF mode = "plan" THEN [config |-> FALSE, flags |-> {PlanFlag}]
    ELSE IF mode = "normal"
    THEN [config |-> TRUE, flags |-> {McpConfigFlag, PromptToolFlag}]
    ELSE IF mode = "auto-edit"
    THEN [config |-> TRUE, flags |-> {McpConfigFlag, PromptToolFlag, AcceptEditsFlag}]
    ELSE IF mode = "yolo" THEN [config |-> FALSE, flags |-> {SkipFlag}]
    ELSE [config |-> FALSE, flags |-> {}]

\* A mutant of Unlink: the file is left behind.
UnlinkSkipped(files, k) == files

\* os.unlink(mcp_config_path) if the path is set and the file exists
Unlink(files, k) == files \ {k}

\* A mutant of Detached: the handle is kept.
DetachedKeepsHandle(r) == [r EXCEPT !.status = "idle", !.waiting_on_user = TRUE]

\* The assignments of the finally block.
Detached(r) == [r EXCEPT !.process = 0, !.status = "idle", !.waiting_on_user = TRUE]

\* The finally block: the handle is cleared, the agent is idle and waiting,
\* the config file is unlinked, and idle is broadcast.  exc tells whether an
\* exception is on its way out of the try block.
RunFinally(k, ru, exc, recs, files, cl, cn, rcv) ==
    LET a == ru.agent_id
        res == BcastBegin(StatusMsg(a, "idle"), cl, cn, rcv)
    IN [run |-> IF res.done
                THEN [ru EXCEPT !.pc = IF exc \/ res.raised THEN "crashed" ELSE "done", !.b = NoB,
                                !.exc = exc, !.todo = <<>>]
                ELSE [ru EXCEPT !.pc = "bc_idle", !.b = res.b, !.exc = exc, !.todo = <<>>],
        rec |-> [recs EXCEPT ![a] = Detached(@)],
        files |-> Unlink(files, k),
        clients |-> res.clients, received |-> res.received, outcome |-> res.outcome]

RECURSIVE RunOps(_, _, _, _, _, _, _, _)
\* The rest of the loop body for the current line, up to its next await.
RunOps(k, ru, recs, files, cl, cn, rcv, out) ==
    IF ru.todo = <<>>
    THEN [run |-> [ru EXCEPT !.pc = "reading", !.b = NoB], rec |-> recs, files |-> files,
          clients |-> cl, received |-> rcv, outcome |-> out]
    ELSE LET op == Head(ru.todo)
             rest == [ru EXCEPT !.todo = Tail(@)]
             res == BcastBegin(op.msg, cl, cn, rcv)
         IN IF op.op = "raise"
            THEN RunFinally(k, ru, TRUE, recs, files, cl, cn, rcv)
            ELSE IF op.op # "bc"
            THEN RunOps(k, rest, [recs EXCEPT ![ru.agent_id] = ApplyOp(@, op)], files,
                        cl, cn, rcv, out)
            ELSE IF res.raised
            THEN RunFinally(k, ru, TRUE, recs, files, res.clients, cn, res.received)
            ELSE IF res.done
                 THEN RunOps(k, rest, recs, files, res.clients, cn, res.received, res.outcome)
                 ELSE [run |-> [rest EXCEPT !.pc = "bc_line", !.b = res.b],
                       rec |-> recs, files |-> files,
                       clients |-> res.clients, received |-> res.received, outcome |-> res.outcome]

\* The step's result is written to the state.
RunStep(k, r) ==
    /\ runs' = [runs EXCEPT ![k] = r.run]
    /\ rec' = r.rec
    /\ mcpFiles' = r.files
    /\ clients' = r.clients
    /\ received' = r.received
    /\ lastBcast' = r.outcome
    /\ UNCHANGED <<pfxVars, clsVars, adapterVars, ctlVars, registry, nextAgent, creates, deletes, termSignals, brokerVars,
                   patternVars, conn, ws, subAgents>>

\* After the working broadcast: the mode's flags and config file, then the
\* await of create_subprocess_exec.  A raise here is outside the try block.
AfterWorkingBroadcast(k, ru, res, recs) ==
    [run |-> IF res.raised THEN [ru EXCEPT !.pc = "crashed", !.b = NoB]
             ELSE IF res.done
             THEN [ru EXCEPT !.pc = "spawning", !.b = NoB, !.cmd = ModeSetup(ru.mode).flags]
             ELSE [ru EXCEPT !.pc = "bc_working", !.b = res.b],
     rec |-> recs,
     files |-> IF res.done /\ ~res.raised /\ ModeSetup(ru.mode).config
               THEN mcpFiles \cup {k} ELSE mcpFiles,
     clients |-> res.clients, received |-> res.received, outcome |-> res.outcome]

\* The task starts: the agent lookup, status working, the working broadcast.
RunStart(k) ==
    /\ runs[k].pc = "start"
    /\ LET a == runs[k].agent_id
       IN IF a \notin registry
          THEN /\ runs' = [runs EXCEPT ![k] = [@ EXCEPT !.pc = "done"]]
               /\ lastBcast' = NoOutcome
               /\ UNCHANGED <<pfxVars, clsVars, adapterVars, ctlVars, registry, nextAgent, rec, creates, deletes, procs,
                              termSignals, mcpFiles, brokerVars, patternVars, obsVars>>
          ELSE LET recs == [rec EXCEPT ![a] = [@ EXCEPT !.status = "working",
                                                        !.waiting_on_user = FALSE]]
                   res == BcastBegin(StatusMsg(a, "working"), clients, conn, received)
               IN /\ RunStep(k, AfterWorkingBroadcast(k, runs[k], res, recs))
                  /\ UNCHANGED procs

\* A send_json of the working broadcast returns or raises.
RunWorkingSend(k) ==
    /\ runs[k].pc = "bc_working"
    /\ RunStep(k, AfterWorkingBroadcast(k, runs[k],
                                        BcastResume(runs[k].b, clients, conn, received), rec))
    /\ UNCHANGED procs

\* create_subprocess_exec returns: the child has been started (ok), the handle
\* is recorded, the prompt is logged and written (drain of so short a write
\* does not suspend), and the read loop awaits the first line; or the child
\* cannot be started and the exception leads to the finally block.
RunSpawn(k, ok) ==
    /\ runs[k].pc = "spawning"
    /\ IF ok
       THEN LET p == Len(procs) + 1
                a == runs[k].agent_id
            IN /\ procs' = Append(procs, "running")
               /\ termSignals' = Append(termSignals, 0)
               /\ runs' = [runs EXCEPT ![k] = [@ EXCEPT !.pc = "reading", !.proc = p]]
               /\ rec' = [rec EXCEPT ![a] = [@ EXCEPT !.process = p,
                              !.messages = Append(@, [role |-> "user", content |-> InitialPrompt])]]
               /\ lastBcast' = NoOutcome
               /\ UNCHANGED <<pfxVars, clsVars, adapterVars, ctlVars, registry, nextAgent, creates, deletes, mcpFiles, brokerVars,
                              patternVars, obsVars>>
       ELSE /\ RunStep(k, RunFinally(k, runs[k], TRUE, rec, mcpFiles, clients, conn, received))
            /\ UNCHANGED procs

\* The read loop gets a line of the child's output and handles it up to the
\* first await.
RunReadLine(k, line) ==
    /\ runs[k].pc = "reading"
    /\ runs[k].lines < MaxLines
    /\ RunStep(k, RunOps(k, [runs[k] EXCEPT !.lines = @ + 1, !.data = line,
                                            !.todo = LineOps(runs[k].agent_id, line)],
                         rec, mcpFiles, clients, conn, received, NoOutcome))
    /\ UNCHANGED procs

\* A send_json of a broadcast of the loop body returns or raises.
RunLineSend(k) ==
    /\ runs[k].pc = "bc_line"
    /\ LET res == BcastResume(runs[k].b, clients, conn, received)
       IN IF res.raised
          THEN RunStep(k, RunFinally(k, runs[k], TRUE, rec, mcpFiles, res.clients, conn, res.received))
          ELSE IF res.done
               THEN RunStep(k, RunOps(k, runs[k], rec, mcpFiles, res.clients, conn, res.received,
                                      res.outcome))
               ELSE RunStep(k, [run |-> [runs[k] EXCEPT !.b = res.b], rec |-> rec,
                                files |-> mcpFiles, clients |-> res.clients,
                                received |-> res.received, outcome |-> res.outcome])
    /\ UNCHANGED procs

\* End of the child's output: the loop ends, wait() returns, finally runs.
RunEOF(k) ==
    /\ runs[k].pc = "reading"
    /\ procs[runs[k].proc] = "exited"
    /\ RunStep(k, RunFinally(k, runs[k], FALSE, rec, mcpFiles, clients, conn, received))
    /\ UNCHANGED procs

\* A send_json of the idle broadcast of the finally block returns or raises.
RunIdleSend(k) ==
    /\ runs[k].pc = "bc_idle"
    /\ LET res == BcastResume(runs[k].b, clients, conn, received)
           ru == IF res.done
                 THEN [runs[k] EXCEPT !.pc = IF runs[k].exc \/ res.raised THEN "crashed" ELSE "done",
                                      !.b = NoB]
                 ELSE [runs[k] EXCEPT !.b = res.b]
       IN RunStep(k, [run |-> ru, rec |-> rec, files |-> mcpFiles, clients |-> res.clients,
                      received |-> res.received, outcome |-> res.outcome])
    /\ UNCHANGED procs

\* The child process ends, of its own accord or on a signal.
ProcExit(p) ==
    /\ procs[p] = "running"
    /\ procs' = [procs EXCEPT ![p] = "exited"]
    /\ lastBcast' = NoOutcome
    /\ UNCHANGED <<pfxVars, clsVars, adapterVars, ctlVars, registry, nextAgent, rec, creates, deletes, runs, termSignals, mcpFiles,
                   brokerVars, patternVars, obsVars>>

(***************************************************************************)
(* websocket_endpoint: chat input and stop_agent (src/main.py 794-856).    *)
(* Each handler takes at most MaxInputs such messages, and at most MaxRuns *)
(* run_claude tasks are made.                                              *)
(***************************************************************************)
ChatInput == <<"o", "k">>
NotFoundMsg(a) == [type |-> "error", agent_id |-> a]

\* A chat message for agent a.  No such agent: an error goes back to the
\* sender.  Its process is set and has no return code: the input is logged
\* and written to stdin, the status is working, and working is broadcast;
\* or the write or its drain raises (~wrote), after the input was logged and
\* the waiting flag cleared, and the exception is caught and printed.
\* Otherwise a new run_claude task is made.
WsChat(o, a, wrote) ==
    /\ ws[o].pc = "recv"
    /\ conn[o] = "open"
    /\ ws[o].inputs < MaxInputs
    /\ ~wrote => (a \in registry /\ rec[a].process # 0 /\ procs[rec[a].process] = "running")
    /\ LET w == [ws[o] EXCEPT !.inputs = @ + 1]
           p == rec[a].process
           res == BcastBegin(StatusMsg(a, "working"), clients, conn, received)
       IN IF a \notin registry
          THEN /\ received' = [received EXCEPT ![o] = Append(@, NotFoundMsg(a))]
               /\ ws' = [ws EXCEPT ![o] = w]
               /\ lastBcast' = NoOutcome
               /\ UNCHANGED <<rec, runs, clients>>
          ELSE IF p # 0 /\ procs[p] = "running" /\ ~wrote
          THEN /\ rec' = [rec EXCEPT ![a] = [@ EXCEPT
                              !.messages = Append(@, [role |-> "user", content |-> ChatInput]),
                              !.waiting_on_user = FALSE]]
               /\ ws' = [ws EXCEPT ![o] = w]
               /\ lastBcast' = NoOutcome
               /\ UNCHANGED <<runs, clients, received>>
          ELSE IF p # 0 /\ procs[p] = "running"
          THEN /\ rec' = [rec EXCEPT ![a] = [@ EXCEPT
                              !.messages = Append(@, [role |-> "user", content |-> ChatInput]),
                              !.waiting_on_user = FALSE, !.status = "working"]]
               /\ ws' = [ws EXCEPT ![o] = [w EXCEPT !.pc = IF res.done THEN "recv" ELSE "bc_chat",
                                                    !.b = res.b]]
               /\ clients' = res.clients
               /\ received' = res.received
               /\ lastBcast' = res.outcome
               /\ UNCHANGED runs
          ELSE /\ Len(runs) < MaxRuns
               /\ runs' = CreateTask(runs, a, rec[a].mode)
               /\ ws' = [ws EXCEPT ![o] = w]
               /\ lastBcast' = NoOutcome
               /\ UNCHANGED <<rec, clients, received>>
    /\ UNCHANGED <<pfxVars, clsVars, adapterVars, ctlVars, registry, nextAgent, creates, deletes, procs,
                   termSignals, mcpFiles, brokerVars, patternVars, conn, subAgents>>

\* A send_json of the chat handler's working broadcast returns or raises; an
\* exception of the broadcast is caught and the handler goes on receiving.
WsChatSend(o) ==
    /\ ws[o].pc = "bc_chat"
    /\ LET res == BcastResume(ws[o].b, clients, conn, received)
       IN /\ ws' = [ws EXCEPT ![o] = [@ EXCEPT !.pc = IF res.done THEN "recv" ELSE "bc_chat",
                                               !.b = res.b]]
          /\ clients' = res.clients
          /\ received' = res.received
          /\ lastBcast' = res.outcome
    /\ UNCHANGED <<pfxVars, clsVars, adapterVars, ctlVars, agentVars, brokerVars, patternVars, conn, subAgents>>

\* A stop_agent message for agent a: terminate() if the agent is registered
\* and its handle is set.  On a process that has exited terminate() does
\* nothing or raises ProcessLookupError (lookup), which ends the handler.
WsStop(o, a, lookup) ==
    /\ ws[o].pc = "recv"
    /\ conn[o] = "open"
    /\ ws[o].inputs < MaxInputs
    /\ LET p == rec[a].process
           held == a \in registry /\ p # 0
           fails == held /\ procs[p] = "exited" /\ lookup
       IN /\ lookup => fails
          /\ termSignals' = IF held /\ procs[p] = "running" THEN Terminate(termSignals, p)
                            ELSE termSignals
          /\ ws' = [ws EXCEPT ![o] = IF fails
                                     THEN [@ EXCEPT !.pc = "crashed", !.err = "ProcessLookupError",
                                                    !.inputs = @ + 1]
                                     ELSE [@ EXCEPT !.inputs = @ + 1]]
          /\ conn' = IF fails THEN [conn EXCEPT ![o] = "closed"] ELSE conn
    /\ lastBcast' = NoOutcome
    /\ UNCHANGED <<pfxVars, clsVars, adapterVars, ctlVars, registry, nextAgent, rec, creates, deletes, runs,
                   procs, mcpFiles, brokerVars, patternVars, clients, received, subAgents>>

(***************************************************************************)
(* The control requests execute_plan, get_agent_diff and delete_agent for  *)
(* an id that is not registered (src/main.py 540-594).  A reply is a       *)
(* triple of the operation, the agent id and the HTTP status.              *)
(***************************************************************************)
Reply(op, a, status) == <<op, a, status>>
NotFound == 404
NoSession == 400
ServerError == 500
Ok == 200

\* The end of execute_plan: the mode is normal, a run_claude task is made.
ExecuteFinish(a) ==
    /\ Len(runs) < MaxRuns
    /\ rec' = [rec EXCEPT ![a] = [@ EXCEPT !.mode = "normal"]]
    /\ runs' = CreateTask(runs, a, "normal")
    /\ http' = Reply("execute", a, Ok)

\* POST /agents/{id}/execute.  With the handle set the process is
\* terminated and waited for; wait() suspends only while it runs.  One
\* call per agent is suspended at a time.
ExecutePlan(a, lookup) ==
    /\ execs[a].pc # "waiting"
    /\ LET p == rec[a].process
           held == a \in registry /\ rec[a].session_id # 0 /\ p # 0
           fails == held /\ procs[p] = "exited" /\ lookup
       IN /\ lookup => fails
          /\ IF a \notin registry
             THEN /\ http' = Reply("execute", a, NotFound)
                  /\ UNCHANGED <<rec, runs, termSignals, execs>>
             ELSE IF rec[a].session_id = 0
             THEN /\ http' = Reply("execute", a, NoSession)
                  /\ UNCHANGED <<rec, runs, termSignals, execs>>
             ELSE IF fails
             THEN /\ http' = Reply("execute", a, ServerError)
                  /\ UNCHANGED <<rec, runs, termSignals, execs>>
             ELSE IF held /\ procs[p] = "running"
             THEN /\ termSignals' = Terminate(termSignals, p)
                  /\ execs' = [execs EXCEPT ![a] = [pc |-> "waiting", proc |-> p]]
                  /\ UNCHANGED <<rec, runs, http>>
             ELSE /\ ExecuteFinish(a)
                  /\ UNCHANGED <<termSignals, execs>>
    /\ lastBcast' = NoOutcome
    /\ UNCHANGED <<pfxVars, clsVars, adapterVars, registry, nextAgent, creates, deletes, procs, mcpFiles,
                   brokerVars, patternVars, obsVars>>

\* process.wait() of a suspended execute_plan returns.
ExecuteResume(a) ==
    /\ execs[a].pc = "waiting"
    /\ procs[execs[a].proc] = "exited"
    /\ ExecuteFinish(a)
    /\ execs' = [execs EXCEPT ![a] = NoExec]
    /\ lastBcast' = NoOutcome
    /\ UNCHANGED <<pfxVars, clsVars, adapterVars, registry, nextAgent, creates, deletes, procs, termSignals,
                   mcpFiles, brokerVars, patternVars, obsVars>>

\* GET /agents/{id}/diff: not found, or the diff of the project.
GetDiff(a) ==
    /\ http' = Reply("diff", a, IF a \in registry THEN Ok ELSE NotFound)
    /\ http' # http
    /\ lastBcast' = NoOutcome
    /\ UNCHANGED <<pfxVars, clsVars, adapterVars, execs, agentVars, brokerVars, patternVars, obsVars>>

\* DELETE /agents/{id} for an id that is not registered.
DeleteMissing(a) ==
    /\ a \notin registry
    /\ http' = Reply("delete", a, NotFound)
    /\ http' # http
    /\ lastBcast' = NoOutcome
    /\ UNCHANGED <<pfxVars, clsVars, adapterVars, execs, agentVars, brokerVars, patternVars, obsVars>>

(***************************************************************************)
(* The permission server (src/mcp_permission_server.py).  One pass of the  *)
(* run_server loop: a line of stdin is read, decoded and routed, and the   *)
(* response, if there is one, is written to stdout.  A line is a record:   *)
(* its kind (blank, not JSON, JSON that is no object, a JSON object), and  *)
(* for an object its id (has_id is FALSE for a missing or null id), its    *)
(* method, and its params: "approve" and "other_tool" are objects naming   *)
(* that tool, "bad_arguments" is an object whose arguments are no object,  *)
(* "not_object" is a params value that is no object.                       *)
(***************************************************************************)
Methods == {"initialize", "notifications/initialized", "tools/list", "tools/call", "unknown"}
ParamsKinds == {"approve", "other_tool", "bad_arguments", "not_object"}
MessageIds == {1, 2}

ObjectLines ==
    [kind : {"object"}, has_id : {TRUE}, id : MessageIds, method : Methods, params : ParamsKinds]
        \cup [kind : {"object"}, has_id : {FALSE}, id : {0}, method : Methods, params : ParamsKinds]
AdapterLines ==
    ObjectLines \cup {[NoLine EXCEPT !.kind = k] : k \in {"blank", "not_json", "not_object"}}

\* What the POST to the callback URL comes to: a decision of the broker, a
\* transport error, a body that is not JSON, or JSON that is no decision
\* (the body of an HTTP error reply).
BrokerReplies == {"allow", "deny", "connect_error", "undecodable", "other_json"}

\* The responses of the server.  code is the "code" of the "error" member,
\* 0 in a response that has a "result" member instead.
MethodNotFound == -32601
ResultResponse(id, kind) ==
    [id |-> id, type |-> "result", content |-> kind, message |-> "none", code |-> 0]
ErrorResponseInvalidParams(id, message) ==
    [id |-> id, type |-> "error", content |-> message, message |-> "none", code |-> -32602]
ErrorResponse(id, message) ==
    [id |-> id, type |-> "error", content |-> message, message |-> "none", code |-> MethodNotFound]

\* json.dumps({"behavior": "deny", "message": f"Permission server error: {e}"})
DenyOnError(id, e) == [id |-> id, type |-> "result", content |-> "deny", message |-> e, code |-> 0]

\* handle_tools_call after the POST: the decision is passed on as it was
\* decoded; an exception of the POST or of response.json() gives a deny.
ToolsCallResponse(id, reply) ==
    IF reply \in {"connect_error", "undecodable"}
    THEN DenyOnError(id, reply)
    ELSE ResultResponse(id, reply)

\* handle_message and the head of handle_tools_call: what one line leads to.
\* "none": nothing is written (a blank line, a decode error, a notification,
\* an acknowledged initialisation, or an exception caught by the loop);
\* "post": the POST to the broker is awaited; else the response to write.
HandleMessage(line) ==
    IF line.kind # "object" THEN [act |-> "none", response |-> NoLine]
    ELSE IF ~line.has_id THEN [act |-> "none", response |-> NoLine]
    ELSE IF line.method = "initialize"
         THEN [act |-> "write", response |-> ResultResponse(line.id, "capabilities")]
    ELSE IF line.method = "notifications/initialized" THEN [act |-> "none", response |-> NoLine]
    ELSE IF line.method = "tools/list"
         THEN [act |-> "write", response |-> ResultResponse(line.id, "tools")]
    ELSE IF line.method = "tools/call"
         THEN IF line.params \in {"not_object", "bad_arguments"}
              THEN [act |-> "none", response |-> NoLine]
              ELSE IF line.params = "other_tool"
                   THEN [act |-> "write", response |-> ErrorResponse(line.id, "unknown tool")]
                   ELSE [act |-> "post", response |-> NoLine]
    ELSE [act |-> "write", response |-> ErrorResponse(line.id, "method not found")]

\* The loop reads the line and handles it up to the POST or to its end.
AdapterRead ==
    /\ adPc = "read"
    /\ LET h == HandleMessage(adLine)
       IN /\ adPc' = IF h.act = "post" THEN "posting" ELSE "done"
          /\ adOut' = IF h.act = "write" THEN Append(adOut, h.response) ELSE adOut
    /\ UNCHANGED <<adLine, adReply, pfxVars, clsVars, ctlVars, agentVars, brokerVars, patternVars, obsVars,
                   lastBcast>>

\* The POST returns or raises, and the response is written.
AdapterPosted ==
    /\ adPc = "posting"
    /\ adPc' = "done"
    /\ adOut' = Append(adOut, ToolsCallResponse(adLine.id, adReply))
    /\ UNCHANGED <<adLine, adReply, pfxVars, clsVars, ctlVars, agentVars, brokerVars, patternVars, obsVars,
                   lastBcast>>

(***************************************************************************)
(* Specifications.                                                         *)
(***************************************************************************)

\* The coordinator after construction, with no call of extract_command_prefix.
InitEmpty ==
    /\ PrefixIdle
    /\ AdapterIdle
    /\ ClassifyIdle
    /\ http = NoReply
    /\ execs = [a \in AgentIds |-> NoExec]
    /\ registry = {}
    /\ nextAgent = 1
    /\ rec = [a \in AgentIds |-> NoRec]
    /\ patterns = <<>>
    /\ clients = <<>>
    /\ conn = [o \in Observers |-> "none"]
    /\ ws = [o \in Observers |-> NoWs]
    /\ received = [o \in Observers |-> <<>>]
    /\ pending = {}
    /\ future = [r \in ReqIds |-> NoDecision]
    /\ req = [r \in ReqIds |-> NoReq]
    /\ nextReq = 1
    /\ creates = [a \in AgentIds |-> NoCtl]
    /\ deletes = [a \in AgentIds |-> NoCtl]
    /\ runs = <<>>
    /\ procs = <<>>
    /\ termSignals = <<>>
    /\ mcpFiles = {}
    /\ lastBcast = NoOutcome
    /\ subAgents = [o \in Observers |-> {}]
    /\ announced = [r \in ReqIds |-> 0]
    /\ responded = {}
    /\ consented = {}
    /\ addedFor = [a \in AgentIds |-> {}]

\* The approval broker: the agents have been created, their first sessions
\* have ended, and then the observers have connected and got their snapshots.
BrokerRec == [NoRec EXCEPT !.status = "idle", !.mode = "normal", !.waiting_on_user = TRUE,
                           !.messages = <<[role |-> "user", content |-> InitialPrompt]>>]

InitBroker ==
    /\ PrefixIdle
    /\ AdapterIdle
    /\ ClassifyIdle
    /\ http = NoReply
    /\ execs = [a \in AgentIds |-> NoExec]
    /\ registry = AgentIds
    /\ nextAgent = MaxAgents + 1
    /\ rec = [a \in AgentIds |-> BrokerRec]
    /\ patterns = [a \in AgentIds |-> {}]
    /\ clients = [o \in Observers |-> o]
    /\ conn = [o \in Observers |-> "open"]
    /\ ws = [o \in Observers |-> [NoWs EXCEPT !.pc = "recv", !.pos = MaxAgents + 1,
                                              !.used = MaxAgents, !.sent = [a \in AgentIds |-> a]]]
    /\ received = [o \in Observers |-> [a \in AgentIds |-> SnapshotInit(a, BrokerRec)]]
    /\ pending = {}
    /\ future = [r \in ReqIds |-> NoDecision]
    /\ req = [r \in ReqIds |-> NoReq]
    /\ nextReq = 1
    /\ creates = [a \in AgentIds |-> [NoCtl EXCEPT !.pc = "done", !.mode = "normal"]]
    /\ deletes = [a \in AgentIds |-> NoCtl]
    /\ runs = [a \in AgentIds |-> [NoRun EXCEPT !.pc = "done", !.agent_id = a, !.mode = "normal",
                                                 !.proc = a, !.cmd = ModeSetup("normal").flags]]
    /\ procs = [a \in AgentIds |-> "exited"]
    /\ termSignals = [a \in AgentIds |-> 0]
    /\ mcpFiles = {}
    /\ lastBcast = NoOutcome
    /\ subAgents = [o \in Observers |-> AgentIds]
    /\ announced = [r \in ReqIds |-> 0]
    /\ responded = {}
    /\ consented = {}
    /\ addedFor = [a \in AgentIds |-> {}]

\* The approval flow: requests of one agent for one tool invocation, answered
\* by observers that may go away at any time.
NextApproval ==
    \/ \E o \in Observers : PeerClose(o)
    \/ \E o \in Observers : WsDisconnect(o)
    \/ \E o \in Observers, m \in PlainResponses : WsApprovalResponse(o, m)
    \/ ApproveRequest(1, CallPath)
    \/ \E r \in ReqIds : ApproveSend(r)
    \/ \E r \in ReqIds : ApproveReturn(r)

SpecApproval == InitBroker /\ [][NextApproval]_vars

\* The approval flow with its tasks kept scheduled: a send_json that is
\* awaited returns or raises, and a handler whose Future is done resumes.
FairApproval ==
    \A r \in ReqIds : WF_vars(ApproveSend(r)) /\ WF_vars(ApproveReturn(r))

SpecApprovalLive == InitBroker /\ [][NextApproval]_vars /\ FairApproval

\* The pattern cache: requests of every agent for every tool invocation, and
\* responses that store patterns.
NextPatterns ==
    \/ \E o \in Observers, m \in PatternResponses : WsApprovalResponse(o, m)
    \/ \E a \in AgentIds, call \in ToolCalls : ApproveRequest(a, call)
    \/ \E r \in ReqIds : ApproveSend(r)
    \/ \E r \in ReqIds : ApproveReturn(r)

SpecPatterns == InitBroker /\ [][NextPatterns]_vars

NextPrefix == ApplyPrefix

SpecPrefix == InitPrefix /\ [][NextPrefix]_vars

\* Consent: requests of every agent for an Edit, answered by responses of
\* either decision that name a pattern or none and agent 1 or none, while
\* agents are deleted.  One request is in progress at a time, and a handler
\* starts when no broadcast of another is under way.
ConsentResponses ==
    [request_id : 0..MaxRequests, decision : {"allow", "deny"}, pattern : {EmptyStr, EditStr},
     agent_id : {0, 1}, tool_input : {JsonNull}]

NoBroadcastUnderWay ==
    /\ \A r \in ReqIds : req[r].pc # "bcast"
    /\ \A a \in AgentIds : deletes[a].pc # "bcast"

NextConsent ==
    \/ \E m \in ConsentResponses : WsApprovalResponse(1, m)
    \/ \E a \in AgentIds : /\ \A r \in ReqIds : req[r].pc \in {"none", "returned", "error"}
                             /\ NoBroadcastUnderWay
                             /\ ApproveRequest(a, CallEdit)
    \/ \E r \in ReqIds : ApproveSend(r)
    \/ \E r \in ReqIds : ApproveReturn(r)
    \/ \E a \in AgentIds : NoBroadcastUnderWay /\ DeleteAgent(a, FALSE)
    \/ \E a \in AgentIds : DeleteSend(a)

SpecConsent == InitBroker /\ [][NextConsent]_vars

\* The agent's handle is set and its process has no return code.
Running(a) == rec[a].process # 0 /\ procs[rec[a].process] = "running"

\* Sessions in progress: runs that have not ended, and creations whose task
\* is still to be made.
ActiveSessions ==
    Cardinality({k \in DOMAIN runs : runs[k].pc \notin {"done", "crashed"}})
        + Cardinality({a \in AgentIds : creates[a].pc = "bcast"})

\* Observers that have subscribed so far.
Subscribers == {o \in Observers : conn[o] # "none"}

\* The hub: agents are created, run and deleted while an observer subscribes.
\* At most MaxSessions sessions are in progress at once and at most
\* MaxSubscribers observers subscribe; deletions come at any time.
NextHub ==
    \/ \E mode \in Modes : ActiveSessions < MaxSessions /\ CreateAgent(mode)
    \/ \E a \in AgentIds : CreateSend(a)
    \/ \E a \in AgentIds, lookup \in BOOLEAN : DeleteAgent(a, lookup)
    \/ \E a \in AgentIds : DeleteSend(a)
    \/ \E k \in DOMAIN runs : RunStart(k)
    \/ \E k \in DOMAIN runs : RunWorkingSend(k)
    \/ \E k \in DOMAIN runs, ok \in BOOLEAN : RunSpawn(k, ok)
    \/ \E k \in DOMAIN runs, line \in Lines : RunReadLine(k, line)
    \/ \E k \in DOMAIN runs : RunLineSend(k)
    \/ \E k \in DOMAIN runs : RunEOF(k)
    \/ \E k \in DOMAIN runs : RunIdleSend(k)
    \/ \E p \in DOMAIN procs : ProcExit(p)
    \/ \E o \in Observers : /\ Cardinality(Subscribers) < MaxSubscribers
                            /\ o = Min(Observers \ Subscribers)
                            /\ Connect(o)
    \/ \E o \in Observers : SnapshotSend(o)

SpecHub == InitEmpty /\ [][NextHub]_vars

\* Announcements: observers subscribe and go away while agents are created
\* and their first sessions start.
NextAnnounce ==
    \/ \E o \in Observers : Connect(o)
    \/ \E o \in Observers : SnapshotSend(o)
    \/ \E o \in Observers : PeerClose(o)
    \/ \E o \in Observers : WsDisconnect(o)
    \/ \E mode \in Modes : ActiveSessions < MaxSessions /\ CreateAgent(mode)
    \/ \E a \in AgentIds : CreateSend(a)
    \/ \E k \in DOMAIN runs : RunStart(k)
    \/ \E k \in DOMAIN runs : RunWorkingSend(k)

SpecAnnounce == InitEmpty /\ [][NextAnnounce]_vars

\* Sessions: agent 1 was created in some mode, its first session has ended
\* and left a session id, and then observer 1 has subscribed.
SessionRec(mode) == [BrokerRec EXCEPT !.mode = mode, !.session_id = SessionId]

InitSession ==
    /\ PrefixIdle
    /\ AdapterIdle
    /\ ClassifyIdle
    /\ http = NoReply
    /\ execs = [a \in AgentIds |-> NoExec]
    /\ registry = {1}
    /\ nextAgent = 2
    /\ \E mode \in Modes : rec = [a \in AgentIds |-> IF a = 1 THEN SessionRec(mode) ELSE NoRec]
    /\ patterns = <<{}>>
    /\ clients = <<1>>
    /\ conn = [o \in Observers |-> IF o = 1 THEN "open" ELSE "none"]
    /\ ws = [o \in Observers |-> IF o = 1
                                 THEN [NoWs EXCEPT !.pc = "recv", !.pos = 2, !.used = 1, !.sent = <<1>>]
                                 ELSE NoWs]
    /\ received = [o \in Observers |-> IF o = 1 THEN <<SnapshotInit(1, rec[1])>> ELSE <<>>]
    /\ pending = {}
    /\ future = [r \in ReqIds |-> NoDecision]
    /\ req = [r \in ReqIds |-> NoReq]
    /\ nextReq = 1
    /\ creates = [a \in AgentIds |-> IF a = 1 THEN [NoCtl EXCEPT !.pc = "done", !.mode = rec[1].mode]
                                     ELSE NoCtl]
    /\ deletes = [a \in AgentIds |-> NoCtl]
    /\ runs = <<[NoRun EXCEPT !.pc = "done", !.agent_id = 1, !.mode = rec[1].mode, !.proc = 1,
                              !.lines = 1, !.cmd = ModeSetup(rec[1].mode).flags, !.data = ResultLine]>>
    /\ procs = <<"exited">>
    /\ termSignals = <<0>>
    /\ mcpFiles = {}
    /\ lastBcast = NoOutcome
    /\ subAgents = [o \in Observers |-> IF o = 1 THEN {1} ELSE {}]
    /\ announced = [r \in ReqIds |-> 0]
    /\ responded = {}
    /\ consented = {}
    /\ addedFor = [a \in AgentIds |-> {}]

\* Sessions of one agent, one at a time: chat input, stop, execute-plan and
\* delete come at any time; chat input comes when no session is in progress,
\* execute-plan also while the agent's process is running, and it then goes
\* on when the session it has terminated is over.  The child prints lines of every kind.
NextSession ==
    \/ \E o \in Observers, a \in AgentIds : ActiveSessions < MaxSessions /\ WsChat(o, a, TRUE)
    \/ \E o \in Observers, a \in AgentIds, lookup \in BOOLEAN : WsStop(o, a, lookup)
    \/ \E a \in AgentIds, lookup \in BOOLEAN : /\ ActiveSessions < MaxSessions \/ Running(a)
                                              /\ ExecutePlan(a, lookup)
    \/ \E a \in AgentIds : ActiveSessions < MaxSessions /\ ExecuteResume(a)
    \/ \E a \in AgentIds, lookup \in BOOLEAN : DeleteAgent(a, lookup)
    \/ \E a \in AgentIds : DeleteSend(a)
    \/ \E k \in DOMAIN runs : RunStart(k)
    \/ \E k \in DOMAIN runs : RunWorkingSend(k)
    \/ \E k \in DOMAIN runs, ok \in BOOLEAN : RunSpawn(k, ok)
    \/ \E k \in DOMAIN runs, line \in SessionLines : RunReadLine(k, line)
    \/ \E k \in DOMAIN runs : RunLineSend(k)
    \/ \E k \in DOMAIN runs : RunEOF(k)
    \/ \E k \in DOMAIN runs : RunIdleSend(k)
    \/ \E p \in DOMAIN procs : ProcExit(p)

SpecSession == InitSession /\ [][NextSession]_vars

\* Starts of sessions that overlap: chat input and execute-plan come at any
\* time, also while an earlier run_claude task of the agent is under way.
NextRace ==
    \/ \E o \in Observers, a \in AgentIds : WsChat(o, a, TRUE)
    \/ \E o \in Observers : WsChatSend(o)
    \/ \E a \in AgentIds, lookup \in BOOLEAN : ExecutePlan(a, lookup)
    \/ \E a \in AgentIds : ExecuteResume(a)
    \/ \E k \in DOMAIN runs : RunStart(k)
    \/ \E k \in DOMAIN runs : RunWorkingSend(k)
    \/ \E k \in DOMAIN runs, ok \in BOOLEAN : RunSpawn(k, ok)
    \/ \E k \in DOMAIN runs, line \in {RawLine} : RunReadLine(k, line)
    \/ \E k \in DOMAIN runs : RunLineSend(k)
    \/ \E k \in DOMAIN runs : RunEOF(k)
    \/ \E k \in DOMAIN runs : RunIdleSend(k)
    \/ \E p \in DOMAIN procs : ProcExit(p)

SpecRace == InitSession /\ [][NextRace]_vars

\* Control requests: diff, execute and delete for registered and unregistered
\* ids, while sessions of agent 1 come and go one at a time.
NextControl ==
    \/ \E o \in Observers, a \in AgentIds : ActiveSessions < MaxSessions /\ WsChat(o, a, TRUE)
    \/ \E a \in AgentIds, lookup \in BOOLEAN : ActiveSessions < MaxSessions /\ ExecutePlan(a, lookup)
    \/ \E a \in AgentIds, lookup \in BOOLEAN : DeleteAgent(a, lookup)
    \/ \E a \in AgentIds : DeleteSend(a)
    \/ \E a \in AgentIds : DeleteMissing(a)
    \/ \E a \in AgentIds : GetDiff(a)
    \/ \E k \in DOMAIN runs : RunStart(k)
    \/ \E k \in DOMAIN runs : RunWorkingSend(k)
    \/ \E k \in DOMAIN runs, ok \in BOOLEAN : RunSpawn(k, ok)
    \/ \E k \in DOMAIN runs, line \in {RawLine} : RunReadLine(k, line)
    \/ \E k \in DOMAIN runs : RunLineSend(k)
    \/ \E k \in DOMAIN runs : RunEOF(k)
    \/ \E k \in DOMAIN runs : RunIdleSend(k)
    \/ \E p \in DOMAIN procs : ProcExit(p)

SpecControl == InitSession /\ [][NextControl]_vars

\* Cancellation: agent 1 was created in normal mode, its first session is
\* reading the output of its running process, and observer 1 has subscribed.
WorkingRec == [BrokerRec EXCEPT !.status = "working", !.waiting_on_user = FALSE, !.process = 1]

InitCancel ==
    /\ PrefixIdle
    /\ AdapterIdle
    /\ ClassifyIdle
    /\ http = NoReply
    /\ execs = [a \in AgentIds |-> NoExec]
    /\ registry = {1}
    /\ nextAgent = 2
    /\ rec = [a \in AgentIds |-> IF a = 1 THEN WorkingRec ELSE NoRec]
    /\ patterns = <<{}>>
    /\ clients = <<1>>
    /\ conn = [o \in Observers |-> IF o = 1 THEN "open" ELSE "none"]
    /\ ws = [o \in Observers |-> IF o = 1
                                 THEN [NoWs EXCEPT !.pc = "recv", !.pos = 2, !.used = 1, !.sent = <<1>>]
                                 ELSE NoWs]
    /\ received = [o \in Observers |-> IF o = 1 THEN <<SnapshotInit(1, rec[1])>> ELSE <<>>]
    /\ pending = {}
    /\ future = [r \in ReqIds |-> NoDecision]
    /\ req = [r \in ReqIds |-> NoReq]
    /\ nextReq = 1
    /\ creates = [a \in AgentIds |-> IF a = 1 THEN [NoCtl EXCEPT !.pc = "done", !.mode = "normal"]
                                     ELSE NoCtl]
    /\ deletes = [a \in AgentIds |-> NoCtl]
    /\ runs = <<[NoRun EXCEPT !.pc = "reading", !.agent_id = 1, !.mode = "normal", !.proc = 1,
                              !.cmd = ModeSetup("normal").flags]>>
    /\ procs = <<"running">>
    /\ termSignals = <<0>>
    /\ mcpFiles = {1}
    /\ lastBcast = NoOutcome
    /\ subAgents = [o \in Observers |-> IF o = 1 THEN {1} ELSE {}]
    /\ announced = [r \in ReqIds |-> 0]
    /\ responded = {}
    /\ consented = {}
    /\ addedFor = [a \in AgentIds |-> {}]

\* The agent's tool calls ask for approval while observers answer, stop the
\* agent or delete it, and its process ends.
NextCancel ==
    \/ \E o \in Observers, a \in AgentIds, lookup \in BOOLEAN : WsStop(o, a, lookup)
    \/ \E a \in AgentIds, lookup \in BOOLEAN : DeleteAgent(a, lookup)
    \/ \E a \in AgentIds : DeleteSend(a)
    \/ \E o \in Observers, m \in PlainResponses : WsApprovalResponse(o, m)
    \/ ApproveRequest(1, CallPath)
    \/ \E r \in ReqIds : ApproveSend(r)
    \/ \E r \in ReqIds : ApproveReturn(r)
    \/ \E k \in DOMAIN runs : RunEOF(k)
    \/ \E k \in DOMAIN runs : RunIdleSend(k)
    \/ \E p \in DOMAIN procs : ProcExit(p)

SpecCancel == InitCancel /\ [][NextCancel]_vars

\* Chat with a session in progress: the process of agent 1 prints a plan or
\* a line that is not JSON while observers send chat input, which is written
\* to its stdin or fails to be, and between sessions.
NextChat ==
    \/ \E o \in Observers, a \in AgentIds, wrote \in BOOLEAN :
           /\ Running(a) \/ ActiveSessions < MaxSessions
           /\ WsChat(o, a, wrote)
    \/ \E o \in Observers : WsChatSend(o)
    \/ \E k \in DOMAIN runs : RunStart(k)
    \/ \E k \in DOMAIN runs : RunWorkingSend(k)
    \/ \E k \in DOMAIN runs, ok \in BOOLEAN : RunSpawn(k, ok)
    \/ \E k \in DOMAIN runs, line \in {PlanLine, RawLine} : RunReadLine(k, line)
    \/ \E k \in DOMAIN runs : RunLineSend(k)
    \/ \E k \in DOMAIN runs : RunEOF(k)
    \/ \E k \in DOMAIN runs : RunIdleSend(k)
    \/ \E p \in DOMAIN procs : ProcExit(p)

SpecChat == InitCancel /\ [][NextChat]_vars

\* The end of a session: the process of agent 1 prints a line and exits, of
\* its own accord or when an observer stops the agent, and observers go away
\* at any time.  The run_claude task is kept scheduled: an awaited send_json
\* returns or raises, and the read loop sees the end of the output of a
\* process that has exited.
NextFinish ==
    \/ \E o \in Observers, a \in AgentIds, lookup \in BOOLEAN : WsStop(o, a, lookup)
    \/ \E o \in Observers : PeerClose(o)
    \/ \E o \in Observers : WsDisconnect(o)
    \/ \E k \in DOMAIN runs, line \in {PlanLine, RawLine, ScalarLine} : RunReadLine(k, line)
    \/ \E k \in DOMAIN runs : RunLineSend(k)
    \/ \E k \in DOMAIN runs : RunEOF(k)
    \/ \E k \in DOMAIN runs : RunIdleSend(k)
    \/ \E p \in DOMAIN procs : ProcExit(p)

FairFinish ==
    \A k \in 1..MaxRuns :
        /\ WF_vars(k \in DOMAIN runs /\ RunLineSend(k))
        /\ WF_vars(k \in DOMAIN runs /\ RunEOF(k))
        /\ WF_vars(k \in DOMAIN runs /\ RunIdleSend(k))

SpecFinish == InitCancel /\ [][NextFinish]_vars /\ FairFinish

\* Lines of a first session: a plan, a result with and one without a session
\* id, and the opening system line.
LaunchLines == {PlanLine, ResultLine, BareResultLine, SystemInitLine}

\* An assistant line whose text is a question, and one that calls a tool.
QuestionLine == AssistantLine(<<TextBlock(QuestionText)>>)
ToolLine == AssistantLine(<<ToolUse("Bash")>>)

\* Launch: agents are created in each of the modes, one session at a time,
\* their first sessions run, and execution of the plan is requested at any
\* time between sessions.  No observer is connected, so no broadcast suspends.
NextLaunch ==
    \/ \E mode \in AllModes : ActiveSessions < MaxSessions /\ CreateAgent(mode)
    \/ \E a \in AgentIds, lookup \in BOOLEAN : /\ ActiveSessions < MaxSessions \/ Running(a)
                                              /\ ExecutePlan(a, lookup)
    \/ \E a \in AgentIds : ActiveSessions < MaxSessions /\ ExecuteResume(a)
    \/ \E k \in DOMAIN runs : RunStart(k)
    \/ \E k \in DOMAIN runs, ok \in BOOLEAN : RunSpawn(k, ok)
    \/ \E k \in DOMAIN runs, line \in LaunchLines : RunReadLine(k, line)
    \/ \E k \in DOMAIN runs : RunEOF(k)
    \/ \E p \in DOMAIN procs : ProcExit(p)

SpecLaunch == InitEmpty /\ [][NextLaunch]_vars

\* Interrupts: observer 1 subscribes at any time while agents are created in
\* normal mode, one session at a time, and their first sessions print a
\* question, a plan, a tool call or a line that is not JSON.
InterruptLines == {QuestionLine, PlanLine, ToolLine, RawLine}

NextInterrupt ==
    \/ Connect(1)
    \/ \E o \in Observers : SnapshotSend(o)
    \/ ActiveSessions < MaxSessions /\ CreateAgent("normal")
    \/ \E a \in AgentIds : CreateSend(a)
    \/ \E k \in DOMAIN runs : RunStart(k)
    \/ \E k \in DOMAIN runs : RunWorkingSend(k)
    \/ \E k \in DOMAIN runs, ok \in BOOLEAN : RunSpawn(k, ok)
    \/ \E k \in DOMAIN runs, line \in InterruptLines : RunReadLine(k, line)
    \/ \E k \in DOMAIN runs : RunLineSend(k)
    \/ \E k \in DOMAIN runs : RunEOF(k)
    \/ \E k \in DOMAIN runs : RunIdleSend(k)
    \/ \E p \in DOMAIN procs : ProcExit(p)

SpecInterrupt == InitEmpty /\ [][NextInterrupt]_vars

\* The texts of text blocks: strings over a few characters that can spell
\* the phrases "how" and "what", with and without capitals and "?".
TextAlphabet == {"?", "h", "o", "w", "a", "t", "H"}

RECURSIVE TextsUpTo(_)
TextsUpTo(n) ==
    IF n = 0 THEN {EmptyStr}
    ELSE LET shorter == TextsUpTo(n - 1)
         IN shorter \cup {Append(s, c) : s \in {t \in shorter : Len(t) = n - 1}, c \in TextAlphabet}

Texts == TextsUpTo(MaxTextLen)

\* Units of one text block.
TextUnits == {<<TextBlock(t)>> : t \in Texts}

\* Units of up to MaxBlocks blocks: a plain text, a question, and tool
\* invocations of the special tools and of another tool.
BlockKinds ==
    {TextBlock(PlainText), TextBlock(QuestionText), ToolUse("AskUserQuestion"),
     ToolUse("AskHuman"), ToolUse("ExitPlanMode"), ToolUse("Bash")}

RECURSIVE UnitsUpTo(_)
UnitsUpTo(n) ==
    IF n = 0 THEN {<<>>}
    ELSE LET shorter == UnitsUpTo(n - 1)
         IN shorter \cup {Append(u, b) : u \in {t \in shorter : Len(t) = n - 1}, b \in BlockKinds}

BlockUnits == UnitsUpTo(MaxBlocks)

\* The block loop before one pass over a unit drawn from units; the
\* coordinator is as after construction.
InitClassify(units) ==
    /\ clsPc = "call"
    /\ clsUnit \in units
    /\ clsOut = NoClass
    /\ PrefixIdle
    /\ AdapterIdle
    /\ http = NoReply
    /\ execs = [a \in AgentIds |-> NoExec]
    /\ registry = {}
    /\ nextAgent = 1
    /\ rec = [a \in AgentIds |-> NoRec]
    /\ patterns = <<>>
    /\ clients = <<>>
    /\ conn = [o \in Observers |-> "none"]
    /\ ws = [o \in Observers |-> NoWs]
    /\ received = [o \in Observers |-> <<>>]
    /\ pending = {}
    /\ future = [r \in ReqIds |-> NoDecision]
    /\ req = [r \in ReqIds |-> NoReq]
    /\ nextReq = 1
    /\ creates = [a \in AgentIds |-> NoCtl]
    /\ deletes = [a \in AgentIds |-> NoCtl]
    /\ runs = <<>>
    /\ procs = <<>>
    /\ termSignals = <<>>
    /\ mcpFiles = {}
    /\ lastBcast = NoOutcome
    /\ subAgents = [o \in Observers |-> {}]
    /\ announced = [r \in ReqIds |-> 0]
    /\ responded = {}
    /\ consented = {}
    /\ addedFor = [a \in AgentIds |-> {}]

\* The block loop runs over the unit, for agent 1.
ApplyClassify ==
    /\ clsPc = "call"
    /\ clsPc' = "returned"
    /\ clsOut' = ClassifyBlocks(1, NoClass, clsUnit)
    /\ UNCHANGED <<clsUnit, pfxVars, adapterVars, ctlVars, agentVars, brokerVars, patternVars,
                   obsVars, lastBcast>>

InitQuestion == InitClassify(TextUnits)

NextQuestion == ApplyClassify

SpecQuestion == InitQuestion /\ [][NextQuestion]_vars

InitUnit == InitClassify(BlockUnits)

NextUnit == ApplyClassify

SpecUnit == InitUnit /\ [][NextUnit]_vars

\* The permission server before one line of its stdin, with the reply its
\* POST would get; the coordinator is as after construction.
InitAdapter ==
    /\ adPc = "read"
    /\ adLine \in AdapterLines
    /\ adReply \in BrokerReplies
    /\ adOut = <<>>
    /\ PrefixIdle
    /\ ClassifyIdle
    /\ http = NoReply
    /\ execs = [a \in AgentIds |-> NoExec]
    /\ registry = {}
    /\ nextAgent = 1
    /\ rec = [a \in AgentIds |-> NoRec]
    /\ patterns = <<>>
    /\ clients = <<>>
    /\ conn = [o \in Observers |-> "none"]
    /\ ws = [o \in Observers |-> NoWs]
    /\ received = [o \in Observers |-> <<>>]
    /\ pending = {}
    /\ future = [r \in ReqIds |-> NoDecision]
    /\ req = [r \in ReqIds |-> NoReq]
    /\ nextReq = 1
    /\ creates = [a \in AgentIds |-> NoCtl]
    /\ deletes = [a \in AgentIds |-> NoCtl]
    /\ runs = <<>>
    /\ procs = <<>>
    /\ termSignals = <<>>
    /\ mcpFiles = {}
    /\ lastBcast = NoOutcome
    /\ subAgents = [o \in Observers |-> {}]
    /\ announced = [r \in ReqIds |-> 0]
    /\ responded = {}
    /\ consented = {}
    /\ addedFor = [a \in AgentIds |-> {}]

NextAdapter == AdapterRead \/ AdapterPosted

SpecAdapter == InitAdapter /\ [][NextAdapter]_vars

(***************************************************************************)
(* The reference derivation of a pattern, by positions in the command.     *)
(***************************************************************************)
IsWs(s, i) == s[i] \in Whitespace

\* First whitespace-separated token: from the first non-whitespace position
\* up to the position before the next whitespace (empty if there is none).
RefFirstToken(s) ==
    LET starts == {i \in 1..Len(s) : ~IsWs(s, i)}
    IN IF starts = {} THEN EmptyStr
       ELSE LET b == CHOOSE i \in starts : \A j \in starts : i <= j
                stops == {i \in b..Len(s) : IsWs(s, i)}
                e == IF stops = {} THEN Len(s)
                     ELSE (CHOOSE i \in stops : \A j \in stops : i <= j) - 1
            IN SubSeq(s, b, e)

\* Last /-separated segment: what follows the last "/".
RefLastSegment(w) ==
    LET slashes == {i \in 1..Len(w) : w[i] = "/"}
    IN IF slashes = {} THEN w
       ELSE SubSeq(w, (CHOOSE i \in slashes : \A j \in slashes : j <= i) + 1, Len(w))

RefPrefix(tool, command) ==
    IF tool = BashStr
    THEN LET w == RefFirstToken(command)
         IN IF Len(w) >= 2 /\ w[1] = "." /\ w[2] = "/" THEN BashColon \o <<".", "/">>
            ELSE IF Len(w) >= 1 /\ w[1] = "/"
                 THEN (IF RefLastSegment(w) = EmptyStr THEN BashColon \o <<"/">>
                       ELSE BashColon \o RefLastSegment(w))
                 ELSE BashColon \o w
    ELSE tool

\* C5: extract_command_prefix(tool, input) equals the reference derivation for
\* every tool name and command: Bash:./ for a first token starting with ./,
\* Bash:<last path segment> (Bash:/ if empty) for one starting with /,
\* Bash:<first token> otherwise, and the tool name itself for any other tool.
C5_PrefixMatchesReference ==
    pfxPc = "returned" => pfxOut = RefPrefix(pfxTool, GetCommand(pfxInput))

\* An absolute path with more than one segment has been derived.
C5_Witness ==
    /\ pfxPc = "returned"
    /\ pfxTool = BashStr
    /\ pfxInput.command = <<"/", "a", "/", "b">>
    /\ pfxOut = BashColon \o <<"b">>

(***************************************************************************)
(* The approval flow and the pattern cache.                                *)
(***************************************************************************)
\* The approval_request notifications for request r in what observer o received.
RequestNotices(o, r) ==
    {i \in DOMAIN received[o] :
        /\ received[o][i].type = "approval_request"
        /\ received[o][i].request_id = r}

\* The claim's condition for a cache hit, on the stored patterns pt.
Matches(pt, agent_id, call) ==
    \/ call.tool_name \in PatternsOf(pt, agent_id)
    \/ RefPrefix(call.tool_name, GetCommand(call.input)) \in PatternsOf(pt, agent_id)

\* C1: a request whose tool name and derived prefix are not in the agent's
\* pattern set has its approval_request broadcast exactly once, no observer
\* gets it twice, and the call returns a decision only after an
\* approval_response naming its id has been processed.
C1_MissNotifiesOnceAndWaits ==
    \A r \in ReqIds :
        (req[r].pc # "none" /\ ~req[r].hit) =>
            /\ announced[r] = 1
            /\ \A o \in Observers : Cardinality(RequestNotices(o, r)) <= 1
            /\ req[r].pc = "returned" => r \in responded

\* A missed request has been seen by both observers, allowed and returned.
C1_Witness ==
    \E r \in ReqIds :
        /\ req[r].pc = "returned"
        /\ ~req[r].hit
        /\ req[r].result.behavior = "allow"
        /\ \A o \in Observers : RequestNotices(o, r) # {}

\* C2: a request whose tool name or derived prefix is in the agent's pattern
\* set returns allow with updatedInput equal to its tool input at once;
\* nothing is sent to any observer and the pending table gets no entry.
C2_HitAllowsSilently ==
    /\ [][\A r \in ReqIds :
            (req[r].pc = "none" /\ req'[r].pc # "none"
                /\ Matches(patterns, req'[r].agent_id, req'[r].call)) =>
                /\ req'[r].pc = "returned"
                /\ req'[r].result = Allow(Json(req'[r].call.input))
                /\ received' = received
                /\ pending' = pending
                /\ announced'[r] = 0]_vars
    /\ [](\A r \in ReqIds :
            req[r].hit => /\ r \notin pending
                          /\ \A o \in Observers : RequestNotices(o, r) = {})

\* A Bash command given by an absolute path has been allowed by its prefix.
C2_Witness ==
    \E r \in ReqIds :
        /\ req[r].hit
        /\ req[r].call = CallPath
        /\ BashStr \notin PatternsOf(patterns, req[r].agent_id)
        /\ req[r].result = Allow(Json(CallPath.input))

\* C3: a second approval_response for a request id, or one for an id that was
\* never issued, changes nothing and raises nothing: the handler of the
\* observer that sent it goes on and its channel stays open.
C3_RepeatedResponseHarmless ==
    \A o \in Observers : ws[o].err # "InvalidStateError"

C6_NoLostPattern ==
    \A a \in AgentIds : addedFor[a] \subseteq PatternsOf(patterns, a)

\* Two different patterns have been added for one agent.
C6_Witness ==
    \E a \in AgentIds : Cardinality(addedFor[a]) = 2 /\ Cardinality(PatternsOf(patterns, a)) = 2

\* C7: a request is auto-approved only by a pattern that a response stored
\* for the requesting agent itself, never by one stored for another agent.
C7_PatternsScopedToAgent ==
    \A r \in ReqIds :
        req[r].hit =>
            \/ req[r].call.tool_name \in addedFor[req[r].agent_id]
            \/ RefPrefix(req[r].call.tool_name, GetCommand(req[r].call.input))
                   \in addedFor[req[r].agent_id]

\* Agent 1 has a pattern that allowed its request; the same tool invocation
\* by agent 2, which has no such pattern, was then not auto-approved.
C7_Witness ==
    /\ req[1].hit /\ req[1].agent_id = 1 /\ req[1].call = CallEdit
    /\ req[2].pc # "none" /\ ~req[2].hit /\ req[2].agent_id = 2 /\ req[2].call = CallEdit
    /\ EditStr \in PatternsOf(patterns, 1)


(***************************************************************************)
(* C8.  Deleting an agent whose process handle is set and whose process is *)
(* running sends that process one termination signal, and no snapshot of   *)
(* an observer that subscribed after the deletion holds the agent.         *)
(***************************************************************************)
DeletedWithLiveProcess(a) ==
    /\ a \in registry
    /\ a \notin registry'
    /\ rec[a].process # 0
    /\ procs[rec[a].process] = "running"

C8_DeleteSignalsAndHides ==
    /\ [](\A o \in Observers : Range(ws[o].sent) \cap ws[o].gone = {})
    /\ [][\A a \in AgentIds : DeletedWithLiveProcess(a) =>
              termSignals'[rec[a].process] = termSignals[rec[a].process] + 1]_vars

\* An agent was deleted while its process ran and the process was signalled;
\* an observer subscribed afterwards and its snapshot, now complete, showed
\* another agent.
C8_Witness ==
    \E o \in Observers, k \in DOMAIN runs :
        /\ ws[o].pc = "recv"
        /\ runs[k].agent_id \in ws[o].gone
        /\ runs[k].proc # 0
        /\ termSignals[runs[k].proc] = 1
        /\ ws[o].sent # <<>>

(***************************************************************************)
(* C9.  A snapshot ends without error and, once complete, has sent exactly *)
(* one init for each agent that existed when the observer subscribed.      *)
(***************************************************************************)
C9_SnapshotCompletes ==
    \A o \in Observers :
        /\ ws[o].err # "RuntimeError"
        /\ ws[o].pc = "recv" =>
              /\ Range(ws[o].sent) = subAgents[o]
              /\ Len(ws[o].sent) = Cardinality(subAgents[o])

(***************************************************************************)
(* C10.  A completed broadcast has been delivered to every observer that   *)
(* was a member from its start to its end with an open connection, and has *)
(* left no member whose delivery failed in the clients list.               *)
(***************************************************************************)
C10_BroadcastReachesMembersAndPrunes ==
    lastBcast.completed => lastBcast.missed = {} /\ lastBcast.unpruned = {}

(***************************************************************************)
(* C13.  When the POST of a tools/call for approve does not give a         *)
(* decision of the broker (it raises, or the reply is no decision), the    *)
(* request is answered once, with its id, by a deny that embeds the error. *)
(***************************************************************************)
ApproveCall(line) ==
    line.kind = "object" /\ line.has_id /\ line.method = "tools/call" /\ line.params = "approve"

C13_FailClosed ==
    (adPc = "done" /\ ApproveCall(adLine) /\ adReply \notin {"allow", "deny"}) =>
        adOut = <<DenyOnError(adLine.id, adReply)>>

(***************************************************************************)
(* C14.  Once a line has been handled, a response has been written if and  *)
(* only if the line is a message with an id, and it is one response with   *)
(* that id.                                                                *)
(***************************************************************************)
C14_AnsweredIffId ==
    adPc = "done" =>
        IF adLine.kind = "object" /\ adLine.has_id
        THEN Len(adOut) = 1 /\ adOut[1].id = adLine.id
        ELSE adOut = <<>>

\* The session processes of agent a that are alive.
LiveProcs(a) ==
    {runs[k].proc : k \in {j \in DOMAIN runs : /\ runs[j].agent_id = a
                                               /\ runs[j].proc # 0
                                               /\ procs[runs[j].proc] = "running"}}

\* C11: at every instant each agent has at most one live session process,
\* whatever chat input and execute-plan requests arrive, also while an
\* earlier start for the agent is still launching its process.
C11_OneLiveProcess ==
    \A a \in AgentIds : Cardinality(LiveProcs(a)) <= 1

\* A session whose supervision has ended: its run_claude task has returned
\* or has ended with an exception.
Ended(k) == runs[k].pc \in {"done", "crashed"}

\* C15: the config file of a session started in a mode that writes one no
\* longer exists once the session's supervision has ended, by whatever path:
\* end of the stream, a failed spawn, an exception while a line is handled,
\* or termination by stop, delete or execute-plan.
C15_ConfigFileRemoved ==
    \A k \in DOMAIN runs : Ended(k) => k \notin mcpFiles

\* A session in normal mode whose process was terminated has ended, after
\* its config file had been written.
C15_Witness ==
    \E k \in DOMAIN runs :
        /\ Ended(k)
        /\ runs[k].mode \in McpModes
        /\ runs[k].proc # 0
        /\ termSignals[runs[k].proc] > 0
        /\ k > 1

\* The changes of an agent's status that the life cycle allows.
StatusTransitions ==
    {<<"idle", "working">>, <<"working", "needs_attention">>, <<"working", "idle">>,
     <<"needs_attention", "working">>}

\* C12: an agent's status changes only from idle to working, from working to
\* needs_attention, from working to idle, and from needs_attention to
\* working; no step takes needs_attention directly to idle.
C12_StatusTransitions ==
    [][\A a \in AgentIds :
          rec'[a].status # rec[a].status =>
              <<rec[a].status, rec'[a].status>> \in StatusTransitions]_vars

\* The lines that do not decode as a structured object: text that is not
\* JSON, and a JSON value that is not an object.
OpaqueLines == {RawLine, ScalarLine}

\* C17: a line that does not decode as a structured object never ends the
\* session: unless its broadcast fails, the read loop goes on (it sends the
\* notification or awaits the next line) and the agent's process handle and
\* status are as before.
C17_OpaqueLineKeepsSession ==
    [][\A k \in DOMAIN runs, line \in OpaqueLines :
          (RunReadLine(k, line) /\ ~lastBcast'.raised) =>
              /\ runs'[k].pc \in {"reading", "bc_line"}
              /\ rec'[runs[k].agent_id].process = rec[runs[k].agent_id].process
              /\ rec'[runs[k].agent_id].status = rec[runs[k].agent_id].status]_vars

\* The run_claude tasks of agent a that have taken a line and have not yet
\* sent all of its notifications.
HandlingLine(a) ==
    {k \in DOMAIN runs : runs[k].agent_id = a /\ runs[k].pc = "bc_line"}

\* C16: the lines of one agent are handled strictly in arrival order: the
\* handling of a line does not start before all notifications of the line
\* before it have been sent, so at most one line of an agent is being
\* handled at a time.
C16_LinesInArrivalOrder ==
    \A a \in AgentIds : Cardinality(HandlingLine(a)) <= 1

\* Agent a has been stopped or deleted: a process of one of its sessions was
\* sent a signal, or its registry entry is gone.
Cancelled(a) ==
    \/ a < nextAgent /\ a \notin registry
    \/ \E k \in DOMAIN runs : /\ runs[k].agent_id = a
                              /\ runs[k].proc # 0
                              /\ termSignals[runs[k].proc] > 0

\* A step that stops or deletes an agent.
CancelStep == termSignals' # termSignals \/ registry' # registry

\* C18: stopping or deleting an agent signals its process and leaves the
\* pending-approval table as it is: the step changes no entry, Future or
\* suspended request; a suspended request is in the table; and a request of
\* a stopped or deleted agent that was announced returns only after an
\* approval_response for its id.
C18_CancelKeepsPending ==
    /\ [][CancelStep => /\ pending' = pending
                        /\ future' = future
                        /\ req' = req]_vars
    /\ [](\A r \in ReqIds : req[r].pc = "waiting" => r \in pending)
    /\ [](\A r \in ReqIds : (req[r].pc = "returned" /\ ~req[r].hit /\ Cancelled(req[r].agent_id))
                                => r \in responded)

\* A request of agent 1 is suspended and in the table, with no response so
\* far, after agent 1 was stopped and then deleted while its process ran.
C18_Witness ==
    \E r \in ReqIds :
        /\ req[r].pc = "waiting"
        /\ req[r].agent_id = 1
        /\ r \in pending \ responded
        /\ 1 \notin registry
        /\ termSignals[1] = 2

\* The notifications about agent a that follow from its sessions.
SessionNotice(m, a) ==
    m.type \in {"status", "output", "tool", "usage", "interrupt"} /\ m.agent_id = a

\* Observer o has been sent an init for agent a before position j of its log.
InitBefore(o, a, j) ==
    \E i \in 1..(j - 1) : received[o][i].type = "init" /\ received[o][i].agent_id = a

\* Observer o subscribed before agent a was created: a was neither registered
\* nor already deleted at that time.
SubscribedBefore(o, a) ==
    conn[o] # "none" /\ a \notin subAgents[o] /\ a \notin ws[o].gone

\* Observer o was connected when agent a was created and still is.
ConnectedSince(o, a) ==
    SubscribedBefore(o, a) /\ conn[o] = "open" /\ o \in Range(clients)

\* C19: once create_agent has ended for agent a, every observer connected
\* since before the creation has been sent an init with the id and project
\* of a; and no such observer is sent a status, output or tool notification
\* of a before an init of a.
C19_InitFirst ==
    /\ \A a \in AgentIds, o \in Observers :
          (creates[a].pc \in {"done", "error"} /\ ConnectedSince(o, a)) =>
              \E i \in DOMAIN received[o] :
                  received[o][i] = CreatedInit(a, creates[a].mode)
    /\ \A a \in AgentIds, o \in Observers :
          SubscribedBefore(o, a) =>
              \A j \in DOMAIN received[o] :
                  SessionNotice(received[o][j], a) => InitBefore(o, a, j)

\* Agent a existed and its registry entry has been removed.
Deleted(a) == a < nextAgent /\ a \notin registry

\* C20: when an existing agent has been deleted, the deleted notification
\* with its id has been broadcast; and every control request (diff, execute,
\* delete) that names the id afterwards is answered with agent-not-found.
C20_DeletedAnnouncedThenNotFound ==
    /\ [](\A a \in AgentIds : Deleted(a) => deletes[a].pc \in {"bcast", "done", "error"})
    /\ [][\A a \in AgentIds :
             (Deleted(a) /\ execs[a].pc # "waiting" /\ http' # http /\ http'[2] = a)
                 => http'[3] = NotFound]_vars

(***************************************************************************)
(* C27.  The reference: the text has a "?" somewhere, and some phrase is    *)
(* spelt, letter by letter and whatever the case, from some position on.    *)
(***************************************************************************)
SpeltAt(text, q, i) ==
    /\ i + Len(q) - 1 <= Len(text)
    /\ \A j \in 1..Len(q) : LowerChar(text[i + j - 1]) = q[j]

RefQuestion(text) ==
    /\ \E i \in 1..Len(text) : text[i] = "?"
    /\ \E q \in QuestionPhrases : \E i \in 1..Len(text) : SpeltAt(text, q, i)

\* The texts that the pass has appended to the message log, in order.
Logged(ops) == SelectSeq(ops, LAMBDA op : op.op = "log")

\* C27: a text block is classified as a question interrupt exactly when its
\* text contains "?" and its lower-cased form contains one of the eight
\* phrases; and the text is appended to the message log exactly when it is
\* not empty, interrupt or not.
C27_TextQuestion ==
    clsPc = "returned" =>
        LET text == clsUnit[1].text
        IN /\ clsOut.is_interrupt <=> RefQuestion(text)
           /\ clsOut.is_interrupt => clsOut.interrupt_type = "question"
           /\ Logged(clsOut.ops) = IF text = EmptyStr THEN <<>> ELSE <<LogOp(text)>>

\* A text with a capital that spells "how" and has a "?" was classified as a
\* question and logged.
C27_Witness ==
    /\ clsPc = "returned"
    /\ clsUnit = <<TextBlock(<<"H", "o", "w", "?">>)>>
    /\ clsOut.is_interrupt
    /\ Logged(clsOut.ops) # <<>>

(***************************************************************************)
(* C26.                                                                    *)
(***************************************************************************)
\* The names of the tools that the unit invokes, in order.
RECURSIVE ToolNamesOf(_)
ToolNamesOf(blocks) ==
    IF blocks = <<>> THEN <<>>
    ELSE IF Head(blocks).type = "tool_use"
         THEN <<Head(blocks).name>> \o ToolNamesOf(Tail(blocks))
         ELSE ToolNamesOf(Tail(blocks))

\* The tool notifications that the pass has broadcast, in order.
ToolNotices(ops) == SelectSeq(ops, LAMBDA op : op.op = "bc")

Invokes(blocks, name) == \E i \in DOMAIN blocks : blocks[i] = ToolUse(name)

\* C26: for every assistant unit, one tool notification is broadcast per
\* tool invocation, interrupt or not; a unit that invokes AskUserQuestion or
\* AskHuman is an interrupt of kind question, and a unit that invokes
\* ExitPlanMode is an interrupt of kind plan, whatever its other blocks and
\* their order.
C26_ToolUnits ==
    clsPc = "returned" =>
        /\ ToolNotices(clsOut.ops) =
               [i \in DOMAIN ToolNamesOf(clsUnit) |-> Bc(ToolMsg(1, ToolNamesOf(clsUnit)[i]))]
        /\ (Invokes(clsUnit, "AskUserQuestion") \/ Invokes(clsUnit, "AskHuman"))
               => (clsOut.is_interrupt /\ clsOut.interrupt_type = "question")
        /\ Invokes(clsUnit, "ExitPlanMode")
               => (clsOut.is_interrupt /\ clsOut.interrupt_type = "plan")

(***************************************************************************)
(* C21.                                                                    *)
(***************************************************************************)
\* The interrupt notifications that observer o has received for agent a.
InterruptsOf(o, a) ==
    {j \in DOMAIN received[o] :
        received[o][j].type = "interrupt" /\ received[o][j].agent_id = a}

\* C21: an interrupt notification broadcast for a newly created normal-mode
\* agent carries an interrupt_type that is one of complete, status and
\* approval.
C21_InterruptKinds ==
    \A o \in Observers : \A a \in registry :
        rec[a].mode = "normal" =>
            \A j \in InterruptsOf(o, a) :
                received[o][j].interrupt_type \in {"complete", "status", "approval"}

\* The kinds that the read loop gives its interrupt notifications.
C21_KindsOfTheLoop ==
    \A o \in Observers : \A a \in AgentIds : \A j \in InterruptsOf(o, a) :
        received[o][j].interrupt_type \in {"question", "plan"}

(***************************************************************************)
(* C24.                                                                    *)
(***************************************************************************)
\* The runs whose command line has been built and whose process is about to
\* be started: the config file, if any, has just been written.
Spawning == {k \in DOMAIN runs : runs[k].pc = "spawning"}

\* The command line tells the child to ask the permission server.
HasPeer(k) == {McpConfigFlag, PromptToolFlag} \subseteq runs[k].cmd

\* C24: whether a session is started with a permission server is a function
\* of its mode alone: the config file and the permission-prompt flag are set
\* up exactly when the mode is normal or auto-edit, auto-edit also accepts
\* edits, and plan and yolo sessions get no permission server and no file.
C24_PeerByMode ==
    \A k \in Spawning :
        LET mode == runs[k].mode
        IN /\ mode \in AllModes
           /\ HasPeer(k) <=> mode \in {"normal", "auto-edit"}
           /\ k \in mcpFiles <=> mode \in {"normal", "auto-edit"}
           /\ AcceptEditsFlag \in runs[k].cmd <=> mode = "auto-edit"
           /\ mode \in {"plan", "yolo"} =>
                  runs[k].cmd \cap {McpConfigFlag, PromptToolFlag, AcceptEditsFlag} = {}
           /\ \A j \in Spawning : runs[j].mode = mode => runs[j].cmd = runs[k].cmd

\* Sessions of all four modes have been set up, a resumed one among them.
C24_Witness ==
    /\ \E k \in Spawning : runs[k].mode = "auto-edit" /\ HasPeer(k) /\ k \in mcpFiles
    /\ {runs[k].mode : k \in DOMAIN runs} \cap {"plan", "yolo"} # {}
    /\ \E k \in DOMAIN runs : runs[k].mode = "normal" /\ runs[k].cmd # {}

(***************************************************************************)
(* C28.                                                                    *)
(***************************************************************************)
\* Run k of agent a is at the statement that stores the session id of a
\* result line that carries one.
StoresSession(k, a) ==
    /\ runs[k].agent_id = a
    /\ runs'[k].data.type = "result"
    /\ runs'[k].data.session_id # 0
    /\ \/ RunReadLine(k, runs'[k].data)
       \/ RunLineSend(k) /\ Op("session") \in Range(runs[k].todo)

\* C28: a request to execute the plan of an agent without a stored session id
\* is answered "no session to resume" and changes nothing: no record, no run,
\* no process, no signal and no suspended call changes.  A session id is
\* stored only when a result line that carries one is read from the agent's
\* output.
C28_NoSessionToResume ==
    [][\A a \in AgentIds :
          /\ \A lookup \in BOOLEAN :
                 (a \in registry /\ rec[a].session_id = 0 /\ ExecutePlan(a, lookup)) =>
                     /\ http' = Reply("execute", a, NoSession)
                     /\ rec' = rec
                     /\ runs' = runs
                     /\ procs' = procs
                     /\ termSignals' = termSignals
                     /\ execs' = execs
                     /\ registry' = registry
          /\ rec'[a].session_id # rec[a].session_id =>
                 \E k \in DOMAIN runs : StoresSession(k, a)]_vars

\* An agent whose process runs and that has no session id was refused, while
\* the other agent has got its session id from a result line.
C28_Witness ==
    \E a \in registry :
        /\ http = Reply("execute", a, NoSession)
        /\ rec[a].session_id = 0
        /\ Running(a)
        /\ \E b \in registry \ {a} : rec[b].session_id = SessionId

(***************************************************************************)
(* C25.                                                                    *)
(***************************************************************************)
\* The content notifications and the status notifications among the steps of
\* the loop body, in order.
ContentNotices(ops) ==
    SelectSeq(ops, LAMBDA op : op.op = "bc" /\ op.msg.type \in {"interrupt", "output"})

StatusNotices(ops) == SelectSeq(ops, LAMBDA op : op.op = "bc" /\ op.msg.type = "status")

\* The runs that have read a line, and the lines that yield an interrupt.
HasRead == {k \in DOMAIN runs : runs[k].data # NoData}
YieldsInterrupt(line) == line \in {QuestionLine, PlanLine}

\* The steps that run k goes through for its line, and its position in them
\* while one of their broadcasts is suspended.
StepsOf(k) == LineOps(runs[k].agent_id, runs[k].data)
InOrder(k) ==
    \E i \in DOMAIN StepsOf(k) :
        /\ runs[k].todo = SubSeq(StepsOf(k), i + 1, Len(StepsOf(k)))
        /\ StepsOf(k)[i].op = "bc"
        /\ runs[k].b.msg = StepsOf(k)[i].msg

\* The notifications of the line of run k, as the claim has them.
NoticesAsClaimed(k) ==
    LET a == runs[k].agent_id
        line == runs[k].data
        ops == StepsOf(k)
    IN /\ runs[k].pc = "bc_line" => InOrder(k)
       /\ IF YieldsInterrupt(line)
          THEN /\ Len(ContentNotices(ops)) = 1
               /\ ContentNotices(ops)[1].msg.type = "interrupt"
               /\ ContentNotices(ops)[1].msg.content = line
               /\ StatusNotices(ops) = <<Bc(StatusMsg(a, "needs_attention"))>>
               /\ \E i, j, n \in DOMAIN ops :
                      /\ i < j /\ j < n
                      /\ ops[i] = Op("attn")
                      /\ ops[j] = StatusNotices(ops)[1]
                      /\ ops[n] = ContentNotices(ops)[1]
          ELSE /\ ContentNotices(ops) = <<Bc(OutputMsg(a, line))>>
               /\ StatusNotices(ops) = <<>>
               /\ Op("attn") \notin Range(ops)

\* An observer that has the working notification of the agent's session and
\* its interrupt has the needs_attention notification in between.
ObservedAsClaimed(o, a) ==
    \A j \in DOMAIN received[o] :
        (received[o][j].type = "interrupt" /\ received[o][j].agent_id = a) =>
            \A w \in 1..(j - 1) :
                received[o][w] = StatusMsg(a, "working") =>
                    \E i \in (w + 1)..(j - 1) : received[o][i] = StatusMsg(a, "needs_attention")

\* Run k passes the statements that set the status and the waiting flag, and
\* no broadcast of the loop body raises in the step.
SetsAttention(k) ==
    /\ runs'[k].pc \in {"bc_line", "reading"}
    /\ Op("attn") \in Range(IF runs[k].pc = "reading"
                            THEN LineOps(runs[k].agent_id, runs'[k].data)
                            ELSE runs[k].todo)
    /\ Op("attn") \notin Range(runs'[k].todo)
    /\ runs'[k] # runs[k]

\* C25: whenever the classification of a line yields an interrupt, the
\* agent's status becomes needs_attention and its waiting flag is set, and a
\* needs_attention status is broadcast before the line's one content
\* notification, which has type interrupt; a line that yields no interrupt
\* gives exactly one content notification, of type output, and no status
\* notification.
C25_InterruptNotices ==
    /\ [](/\ \A k \in HasRead : NoticesAsClaimed(k)
          /\ \A o \in Observers : \A a \in AgentIds : ObservedAsClaimed(o, a))
    /\ [][\A k \in DOMAIN runs :
             SetsAttention(k) =>
                 /\ YieldsInterrupt(runs'[k].data)
                 /\ rec'[runs[k].agent_id].status = "needs_attention"
                 /\ rec'[runs[k].agent_id].waiting_on_user]_vars

\* Agent 1's line was no interrupt and observer 1 has received it as
\* output; it has received the interrupt of agent 2 after its status, and
\* agent 2 is waiting for attention.
C25_Witness ==
    /\ \E j \in DOMAIN received[1] :
           /\ received[1][j].type = "interrupt"
           /\ received[1][j].agent_id = 2
           /\ j > 1
           /\ received[1][j - 1] = StatusMsg(2, "needs_attention")
    /\ rec[2].status = "needs_attention"
    /\ rec[2].waiting_on_user
    /\ \E j \in DOMAIN received[1] : received[1][j] = OutputMsg(1, ToolLine)

(***************************************************************************)
(* C29.                                                                    *)
(***************************************************************************)
\* C29: chat input for a registered agent whose process is not live is a
\* no-op error: no process is written to or started, no session is begun,
\* and the agent's status, message log and waiting flag are unchanged.
C29_DeadSendIsNoOp ==
    [][\A o \in Observers : \A a \in registry :
          (~Running(a) /\ WsChat(o, a, TRUE)) =>
              /\ runs' = runs
              /\ procs' = procs
              /\ rec' = rec]_vars

(***************************************************************************)
(* C30.                                                                    *)
(***************************************************************************)
\* C30: at every suspension point an agent whose status is needs_attention
\* has its waiting flag set, also while chat input for a live process is
\* handled and when the write to the process fails.
C30_AttentionWaits ==
    \A a \in AgentIds : rec[a].status = "needs_attention" => rec[a].waiting_on_user

(***************************************************************************)
(* C23.                                                                    *)
(***************************************************************************)
\* An approval_response for request r was processed while r was in the
\* table, and some observer had been sent the request.
Answered(r) ==
    /\ r \in responded
    /\ \E o \in Observers : \E j \in DOMAIN received[o] :
           received[o][j].type = "approval_request" /\ received[o][j].request_id = r

\* The handler of request r has returned the decision of the Future and its
\* entry is gone from the table.
ReturnedDecision(r) ==
    /\ req[r].pc = "returned"
    /\ req[r].result = future[r]
    /\ req[r].result.behavior \in {"allow", "deny"}
    /\ r \notin pending

\* C23: if an approval_response for a pending request id is processed, the
\* suspended handler of that request eventually returns, with allow when the
\* response's decision is allow and with deny in every other case, and the
\* entry is then removed from the table.
C23_ResponseReturns ==
    /\ \A r \in ReqIds : Answered(r) ~> ReturnedDecision(r)
    /\ [][\A o \in Observers : \A m \in PlainResponses :
             (m.request_id \in pending /\ future[m.request_id] = NoDecision
                  /\ WsApprovalResponse(o, m)) =>
                 future'[m.request_id].behavior =
                     IF m.decision = "allow" THEN "allow" ELSE "deny"]_vars

\* The same for a response that is processed when the handler is suspended in
\* the wait for its Future.
C23_ResponseReturnsFromWait ==
    \A r \in ReqIds : (Answered(r) /\ req[r].pc = "waiting") ~> ReturnedDecision(r)

(***************************************************************************)
(* C22.                                                                    *)
(***************************************************************************)
\* The process of run k has ended and the run has not yet seen the end of
\* its output.
OutputEnded(k) ==
    /\ k \in DOMAIN runs
    /\ runs[k].pc \in {"reading", "bc_line"}
    /\ procs[runs[k].proc] = "exited"

\* Run k has gone through its finally block: its agent is idle and has no
\* handle, and the idle notification is on its way or has been sent.
Idle(k) ==
    /\ k \in DOMAIN runs
    /\ runs[k].pc \in {"bc_idle", "done", "crashed"}
    /\ rec[runs[k].agent_id].status = "idle"
    /\ rec[runs[k].agent_id].process = 0

\* Run k has ended, and every observer that is still connected has the idle
\* notification of its agent.
IdleBroadcast(k) ==
    /\ k \in DOMAIN runs
    /\ runs[k].pc \in {"done", "crashed"}
    /\ \A o \in Range(clients) :
           conn[o] = "open" =>
               \E j \in DOMAIN received[o] : received[o][j] = StatusMsg(runs[k].agent_id, "idle")

\* C22: when the output of a session's process ends or the process exits,
\* the agent eventually has status idle and no process handle, and an idle
\* status notification is broadcast, as long as the run_claude task is kept
\* scheduled.
C22_EndsIdle ==
    \A k \in 1..MaxRuns :
        /\ OutputEnded(k) ~> Idle(k)
        /\ OutputEnded(k) ~> IdleBroadcast(k)

\* The first session has ended after its process exited: agent 1 is idle
\* without a handle and observer 1 has been told.
C22_Witness ==
    /\ procs[1] = "exited"
    /\ runs[1].pc = "done"
    /\ rec[1].status = "idle"
    /\ rec[1].process = 0
    /\ conn[1] = "open"
    /\ received[1][Len(received[1])] = StatusMsg(1, "idle")

(***************************************************************************)
(* C31.  A request (a message with an id) that is a tools/call naming a    *)
(* tool other than "approve", or whose method is none of the known ones,   *)
(* is never passed to the broker, and once it has been handled exactly one *)
(* response has been written for it: an error with the request's id and    *)
(* the code -32601.                                                        *)
(***************************************************************************)
Unrecognized(line) ==
    /\ line.kind = "object"
    /\ line.has_id
    /\ \/ line.method = "tools/call" /\ line.params = "other_tool"
       \/ line.method = "unknown"

\* C31: such a request is never posted to the broker and is answered by one
\* error of code -32601.
C31_MethodNotFound ==
    Unrecognized(adLine) =>
        /\ adPc # "posting"
        /\ adPc = "done" =>
              /\ Len(adOut) = 1
              /\ adOut[1].type = "error"
              /\ adOut[1].id = adLine.id
              /\ adOut[1].code = -32601

C31_Witness ==
    /\ adPc = "done"
    /\ adLine.kind = "object" /\ adLine.has_id
    /\ adLine.method = "tools/call" /\ adLine.params = "other_tool"
    /\ adOut = <<ErrorResponse(adLine.id, "unknown tool")>>

(***************************************************************************)
(* C32.  A call of requestApproval returns allow only for a request that   *)
(* matched a pattern which an allow response had stored for the requesting *)
(* agent, or whose id an approval_response with decision "allow" named     *)
(* while the request was pending; any other call that returns, returns     *)
(* deny.                                                                   *)
(***************************************************************************)
ReturnedAllow(r) == req[r].pc = "returned" /\ req[r].result.behavior = "allow"

AllowedByPattern(r) ==
    /\ req[r].hit
    /\ \/ req[r].call.tool_name \in addedFor[req[r].agent_id]
       \/ RefPrefix(req[r].call.tool_name, GetCommand(req[r].call.input))
              \in addedFor[req[r].agent_id]

AllowedByResponse(r) == ~req[r].hit /\ r \in consented

\* C32: a call that returned allow matched a pattern stored for its own agent
\* or was named by an allow response while it was pending; every other call
\* that returned has returned deny.
C32_AllowNeedsConsent ==
    \A r \in ReqIds :
        /\ ReturnedAllow(r) => AllowedByPattern(r) \/ AllowedByResponse(r)
        /\ req[r].pc = "returned" => req[r].result.behavior \in {"allow", "deny"}

\* Request 1 was denied by a response and returned deny; request 2 was
\* allowed by a response and returned allow.
C32_Witness ==
    /\ req[1].pc = "returned" /\ req[1].result.behavior = "deny" /\ ~req[1].hit
    /\ ReturnedAllow(2) /\ AllowedByResponse(2)

(***************************************************************************)
(* C33.  A step changes the pattern table only if it processes an          *)
(* approval_response or deletes an agent.  Every approval_response that    *)
(* accounts for a step either leaves the table as it was, or has decision  *)
(* "allow" and names a pattern and an agent, and the table is then the old *)
(* one with that pattern added to that agent's set; a deletion leaves the  *)
(* sets of the other agents as they were.                                  *)
(***************************************************************************)
StoresPattern(m) ==
    /\ m.decision = "allow" /\ m.pattern # EmptyStr /\ m.agent_id # 0
    /\ \A a \in AgentIds :
           PatternsOf(patterns', a) =
               IF a = m.agent_id THEN PatternsOf(patterns, a) \cup {m.pattern}
               ELSE PatternsOf(patterns, a)

PatternStep ==
    /\ \A m \in ConsentResponses :
           WsApprovalResponse(1, m) => (patterns' = patterns \/ StoresPattern(m))
    /\ \A a \in AgentIds :
           DeleteAgent(a, FALSE) =>
               \A x \in AgentIds \ {a} : PatternsOf(patterns', x) = PatternsOf(patterns, x)
    /\ (\E a \in AgentIds : PatternsOf(patterns', a) # PatternsOf(patterns, a)) =>
           \/ \E m \in ConsentResponses : WsApprovalResponse(1, m)
           \/ \E a \in AgentIds : DeleteAgent(a, FALSE)

\* C33: every step is a pattern step: only an allow response that names a
\* pattern and an agent inserts a pattern, only a deletion removes a set.
C33_PatternsFrame == [][PatternStep]_vars

\* Agent 1 has a pattern that a response stored, after a response with
\* decision "deny" that named the same pattern and agent was processed for
\* request 1 and left the agent's set empty.
C33_Witness ==
    /\ req[1].pc = "returned" /\ req[1].result.behavior = "deny" /\ req[1].agent_id = 1
    /\ PatternsOf(patterns, 1) = {EditStr}
    /\ PatternsOf(patterns, 2) = {}
    /\ 2 \notin registry

(***************************************************************************)
(* C34.  The pattern table holds a set only for agents that are in the     *)
(* registry.                                                               *)
(***************************************************************************)
C34_PatternsOnlyForAgents == DOMAIN patterns \subseteq registry

(***************************************************************************)
(* C39.  Every id in the pending-approval table is the id of a call of     *)
(* requestApproval that is still in progress: it is broadcasting its       *)
(* approval_request or waiting for its Future.                             *)
(***************************************************************************)
C39_PendingHasLiveCall ==
    \A r \in pending : req[r].pc \in {"bcast", "waiting"}

(***************************************************************************)
(* C40.  A call of requestApproval that a response allowed returns an      *)
(* allow whose updatedInput is the tool input of its own request.          *)
(***************************************************************************)
C40_AllowCarriesRequestInput ==
    \A r \in ReqIds :
        (req[r].pc = "returned" /\ ~req[r].hit /\ req[r].result.behavior = "allow") =>
            req[r].result.updatedInput = Json(req[r].call.input)

(***************************************************************************)
(* C35.  Once delete_agent(a) has returned, every session process of a     *)
(* that is still running has been sent the termination signal: none runs   *)
(* on unsignalled, and none has been started since.                        *)
(***************************************************************************)
C35_NoProcessAfterDelete ==
    \A a \in AgentIds :
        deletes[a].pc = "done" => \A p \in LiveProcs(a) : termSignals[p] > 0

(***************************************************************************)
(* C36.  In what every observer is sent, no status, output, interrupt,     *)
(* tool, usage or approval_request notification of an agent comes after    *)
(* the deleted notification of that agent.                                 *)
(***************************************************************************)
AgentNotice(m, a) ==
    /\ m.type \in {"status", "output", "interrupt", "tool", "usage", "approval_request"}
    /\ m.agent_id = a

\* C36: no notification of an agent follows its deleted notification in what
\* an observer is sent.
C36_DeletedIsLast ==
    \A o \in Observers, a \in AgentIds :
        \A i \in DOMAIN received[o] :
            (received[o][i].type = "deleted" /\ received[o][i].agent_id = a) =>
                \A j \in (i + 1)..Len(received[o]) : ~AgentNotice(received[o][j], a)

(***************************************************************************)
(* C37.  No broadcast ends by raising an exception into its caller, and no *)
(* call of requestApproval is ended by an exception of its broadcast.      *)
(***************************************************************************)
C37_BroadcastNeverRaises ==
    /\ ~lastBcast.raised
    /\ \A r \in ReqIds : req[r].pc # "error"

(***************************************************************************)
(* C38.  Whenever an agent's record holds no process handle, no session    *)
(* process started for that agent is running.                              *)
(***************************************************************************)
C38_HandleAccurate ==
    \A a \in AgentIds : rec[a].process = 0 => LiveProcs(a) = {}

====
